---------------------------- MODULE Spec2Model ----------------------------
(***************************************************************************)
(* cc::RasterTilePriorityQueue (cc/resources/raster_tile_priority_queue.cc) *)
(* A heap of PairedTilingSetQueues, each wrapping the active and the       *)
(* pending raster iterator of one layer pair.                              *)
(***************************************************************************)
EXTENDS Integers, Sequences, FiniteSets, TLC

(***************************************************************************)
(* Bounds of the model.                                                    *)
(***************************************************************************)
NumTiles == 3      \* tiles in the tile pool
MaxLen == 2        \* tiles one raster iterator enumerates
MaxPairs == 1      \* Spec: pairs the container holds
MaxTwinPairs == 1  \* Spec: pairs with both layers among them
HeapPairs == 3     \* SpecHeap: pairs the container holds, each of one layer
MaxDist == 1       \* distance_to_visible ranges over 0..MaxDist
MergePairs == 2    \* SpecMerge: pairs the container holds

(***************************************************************************)
(* Enumerations.                                                           *)
(***************************************************************************)
SMOOTHNESS_TAKES_PRIORITY == "SMOOTHNESS_TAKES_PRIORITY"
NEW_CONTENT_TAKES_PRIORITY == "NEW_CONTENT_TAKES_PRIORITY"
SAME_PRIORITY_FOR_BOTH_TREES == "SAME_PRIORITY_FOR_BOTH_TREES"
TreePriority ==
  {SMOOTHNESS_TAKES_PRIORITY, NEW_CONTENT_TAKES_PRIORITY, SAME_PRIORITY_FOR_BOTH_TREES}

ACTIVE_TREE == "ACTIVE_TREE"
PENDING_TREE == "PENDING_TREE"
WhichTree == {ACTIVE_TREE, PENDING_TREE}

NOW == "NOW"
SOON == "SOON"
EVENTUALLY == "EVENTUALLY"
PriorityBin == {NOW, SOON, EVENTUALLY}

HIGH_RESOLUTION == "HIGH_RESOLUTION"
LOW_RESOLUTION == "LOW_RESOLUTION"
NON_IDEAL_RESOLUTION == "NON_IDEAL_RESOLUTION"
TileResolution == {HIGH_RESOLUTION, LOW_RESOLUTION, NON_IDEAL_RESOLUTION}

\* TilePriority: (priority_bin, resolution, distance_to_visible)
TilePriority ==
  [priority_bin : PriorityBin, resolution : TileResolution,
   distance_to_visible : 0..MaxDist]

Prio(bin, res, dist) ==
  [priority_bin |-> bin, resolution |-> res, distance_to_visible |-> dist]

\* Tile: the two per-tree priority records and the shared flag
MkTile(shared, act, pend) ==
  [is_shared |-> shared, active |-> act, pending |-> pend]

VARIABLES
  tiles,            \* the tile pool: tile id -> Tile (fixed during a behaviour)
  tree_priority_,   \* RasterTilePriorityQueue::tree_priority_
  paired_queues_,   \* RasterTilePriorityQueue::paired_queues_ (heap order)
  built,            \* history: the layer pairs given to Build since the last Reset
  emitted,          \* history: <<tile, pair, tree>> of every Pop since the last Reset
  epoch,            \* history: "fresh", "built" (one Build) or "rebuilt" (several)
  last              \* history: the last public call and what it returned

vars == <<tiles, tree_priority_, paired_queues_, built, emitted, epoch, last>>

nullptr == 0

(***************************************************************************)
(* Tile and TilePriority accessors (cc/resources/tile.h, tile_priority.h).  *)
(***************************************************************************)
BinRank(bin) == CASE bin = NOW -> 3 [] bin = SOON -> 2 [] OTHER -> 1

IsHigherPriorityThan(x, y) ==
  \/ BinRank(x.priority_bin) > BinRank(y.priority_bin)
  \/ /\ x.priority_bin = y.priority_bin
     /\ x.distance_to_visible < y.distance_to_visible

priority(tile, tree) ==
  IF tree = ACTIVE_TREE THEN tiles[tile].active ELSE tiles[tile].pending

priority_for_tree_priority(tile, tree_priority) ==
  IF tree_priority = NEW_CONTENT_TAKES_PRIORITY
    THEN priority(tile, PENDING_TREE)
    ELSE priority(tile, ACTIVE_TREE)

is_shared(tile) == tiles[tile].is_shared

(***************************************************************************)
(* TilingSetRasterQueue: an iterator, here the sequence of tiles it has    *)
(* still to return.  A scoped_ptr that is null is [null |-> TRUE].         *)
(***************************************************************************)
NullQueue == [null |-> TRUE, q |-> <<>>]
RasterQueue(s) == [null |-> FALSE, q |-> s]

QueueIsEmpty(queue) == queue.q = <<>>
QueueTop(queue) == Head(queue.q)
QueuePop(queue) == [queue EXCEPT !.q = Tail(queue.q)]


(***************************************************************************)
(* HigherPriorityTree: the tree arbiter.  With a shared_tile the two       *)
(* queues are not read.                                                    *)
(***************************************************************************)
\* Mutant: the smoothness policy promotes a pending NOW tile over any other bin.
SmoothnessPendingNowWins(tree_priority, active_queue, pending_queue, shared_tile) ==
  LET active_tile ==
        IF shared_tile # nullptr THEN shared_tile ELSE QueueTop(active_queue)
      pending_tile ==
        IF shared_tile # nullptr THEN shared_tile ELSE QueueTop(pending_queue)
      active_priority == priority(active_tile, ACTIVE_TREE)
      pending_priority == priority(pending_tile, PENDING_TREE)
  IN CASE tree_priority = SMOOTHNESS_TAKES_PRIORITY ->
            IF /\ active_priority.priority_bin # NOW
               /\ pending_priority.priority_bin = NOW
              THEN PENDING_TREE
              ELSE ACTIVE_TREE
       [] tree_priority = NEW_CONTENT_TAKES_PRIORITY -> PENDING_TREE
       [] tree_priority = SAME_PRIORITY_FOR_BOTH_TREES ->
            IF IsHigherPriorityThan(active_priority, pending_priority)
              THEN ACTIVE_TREE
              ELSE PENDING_TREE
       [] OTHER -> ACTIVE_TREE

\* Mutant: under the same-priority policy a tie names the active tree.
SamePriorityTieActive(tree_priority, active_queue, pending_queue, shared_tile) ==
  LET active_tile ==
        IF shared_tile # nullptr THEN shared_tile ELSE QueueTop(active_queue)
      pending_tile ==
        IF shared_tile # nullptr THEN shared_tile ELSE QueueTop(pending_queue)
      active_priority == priority(active_tile, ACTIVE_TREE)
      pending_priority == priority(pending_tile, PENDING_TREE)
  IN CASE tree_priority = SMOOTHNESS_TAKES_PRIORITY ->
            IF /\ active_priority.priority_bin = EVENTUALLY
               /\ pending_priority.priority_bin = NOW
              THEN PENDING_TREE
              ELSE ACTIVE_TREE
       [] tree_priority = NEW_CONTENT_TAKES_PRIORITY -> PENDING_TREE
       [] tree_priority = SAME_PRIORITY_FOR_BOTH_TREES ->
            IF IsHigherPriorityThan(pending_priority, active_priority)
              THEN PENDING_TREE
              ELSE ACTIVE_TREE
       [] OTHER -> ACTIVE_TREE

\* Mutant: the tops of the iterators are read whenever they hold a tile.
ArbiterReadsIterators(tree_priority, active_queue, pending_queue, shared_tile) ==
  LET active_tile ==
        IF active_queue.q = <<>> THEN shared_tile ELSE QueueTop(active_queue)
      pending_tile ==
        IF pending_queue.q = <<>> THEN shared_tile ELSE QueueTop(pending_queue)
      active_priority == priority(active_tile, ACTIVE_TREE)
      pending_priority == priority(pending_tile, PENDING_TREE)
  IN CASE tree_priority = SMOOTHNESS_TAKES_PRIORITY ->
            IF /\ active_priority.priority_bin = EVENTUALLY
               /\ pending_priority.priority_bin = NOW
              THEN PENDING_TREE
              ELSE ACTIVE_TREE
       [] tree_priority = NEW_CONTENT_TAKES_PRIORITY -> PENDING_TREE
       [] tree_priority = SAME_PRIORITY_FOR_BOTH_TREES ->
            IF IsHigherPriorityThan(active_priority, pending_priority)
              THEN ACTIVE_TREE
              ELSE PENDING_TREE
       [] OTHER -> ACTIVE_TREE

\* Mutant: the smoothness policy never promotes the pending tree.
SmoothnessAlwaysActive(tree_priority, active_queue, pending_queue, shared_tile) ==
  LET active_tile ==
        IF shared_tile # nullptr THEN shared_tile ELSE QueueTop(active_queue)
      pending_tile ==
        IF shared_tile # nullptr THEN shared_tile ELSE QueueTop(pending_queue)
      active_priority == priority(active_tile, ACTIVE_TREE)
      pending_priority == priority(pending_tile, PENDING_TREE)
  IN CASE tree_priority = SMOOTHNESS_TAKES_PRIORITY -> ACTIVE_TREE
       [] tree_priority = NEW_CONTENT_TAKES_PRIORITY -> PENDING_TREE
       [] tree_priority = SAME_PRIORITY_FOR_BOTH_TREES ->
            IF IsHigherPriorityThan(active_priority, pending_priority)
              THEN ACTIVE_TREE
              ELSE PENDING_TREE
       [] OTHER -> ACTIVE_TREE

\* Mutant: the same-priority policy names the active tree.
SamePriorityPrefersActive(tree_priority, active_queue, pending_queue, shared_tile) ==
  LET active_tile ==
        IF shared_tile # nullptr THEN shared_tile ELSE QueueTop(active_queue)
      pending_tile ==
        IF shared_tile # nullptr THEN shared_tile ELSE QueueTop(pending_queue)
      active_priority == priority(active_tile, ACTIVE_TREE)
      pending_priority == priority(pending_tile, PENDING_TREE)
  IN CASE tree_priority = SMOOTHNESS_TAKES_PRIORITY ->
            IF /\ active_priority.priority_bin = EVENTUALLY
               /\ pending_priority.priority_bin = NOW
              THEN PENDING_TREE
              ELSE ACTIVE_TREE
       [] tree_priority = NEW_CONTENT_TAKES_PRIORITY -> PENDING_TREE
       [] tree_priority = SAME_PRIORITY_FOR_BOTH_TREES -> ACTIVE_TREE
       [] OTHER -> ACTIVE_TREE

\* Mutant: the new-content policy names the active tree.
NewContentPrefersActive(tree_priority, active_queue, pending_queue, shared_tile) ==
  LET active_tile ==
        IF shared_tile # nullptr THEN shared_tile ELSE QueueTop(active_queue)
      pending_tile ==
        IF shared_tile # nullptr THEN shared_tile ELSE QueueTop(pending_queue)
      active_priority == priority(active_tile, ACTIVE_TREE)
      pending_priority == priority(pending_tile, PENDING_TREE)
  IN CASE tree_priority = SMOOTHNESS_TAKES_PRIORITY ->
            IF /\ active_priority.priority_bin = EVENTUALLY
               /\ pending_priority.priority_bin = NOW
              THEN PENDING_TREE
              ELSE ACTIVE_TREE
       [] tree_priority = NEW_CONTENT_TAKES_PRIORITY -> ACTIVE_TREE
       [] tree_priority = SAME_PRIORITY_FOR_BOTH_TREES ->
            IF IsHigherPriorityThan(active_priority, pending_priority)
              THEN ACTIVE_TREE
              ELSE PENDING_TREE
       [] OTHER -> ACTIVE_TREE

HigherPriorityTree(tree_priority, active_queue, pending_queue, shared_tile) ==
  LET active_tile ==
        IF shared_tile # nullptr THEN shared_tile ELSE QueueTop(active_queue)
      pending_tile ==
        IF shared_tile # nullptr THEN shared_tile ELSE QueueTop(pending_queue)
      active_priority == priority(active_tile, ACTIVE_TREE)
      pending_priority == priority(pending_tile, PENDING_TREE)
  IN CASE tree_priority = SMOOTHNESS_TAKES_PRIORITY ->
            IF /\ active_priority.priority_bin = EVENTUALLY
               /\ pending_priority.priority_bin = NOW
              THEN PENDING_TREE
              ELSE ACTIVE_TREE
       [] tree_priority = NEW_CONTENT_TAKES_PRIORITY -> PENDING_TREE
       [] tree_priority = SAME_PRIORITY_FOR_BOTH_TREES ->
            IF IsHigherPriorityThan(active_priority, pending_priority)
              THEN ACTIVE_TREE
              ELSE PENDING_TREE
       [] OTHER -> ACTIVE_TREE

(***************************************************************************)
(* PairedTilingSetQueue.  id is history: the position of the pair in the   *)
(* Build order since the last Reset.                                       *)
(***************************************************************************)
\* Mutant: a pair is empty as soon as one iterator is absent or empty.
PairedIsEmptyEither(pq) ==
  \/ (pq.active_queue.null \/ QueueIsEmpty(pq.active_queue))
  \/ (pq.pending_queue.null \/ QueueIsEmpty(pq.pending_queue))

PairedIsEmpty(pq) ==
  /\ (pq.active_queue.null \/ QueueIsEmpty(pq.active_queue))
  /\ (pq.pending_queue.null \/ QueueIsEmpty(pq.pending_queue))

\* The two dictionaries of the traced value; each reports the bins of the
\* top of its iterator, EVENTUALLY when the iterator has no tile.
StateAsValue(pq) ==
  LET active_queue_has_tile ==
        ~pq.active_queue.null /\ ~QueueIsEmpty(pq.active_queue)
      pending_queue_has_tile ==
        ~pq.pending_queue.null /\ ~QueueIsEmpty(pq.pending_queue)
  IN [active_queue |->
        [has_tile |-> active_queue_has_tile,
         active_priority_bin |->
           IF active_queue_has_tile
             THEN priority(QueueTop(pq.active_queue), ACTIVE_TREE).priority_bin
             ELSE EVENTUALLY,
         pending_priority_bin |->
           IF active_queue_has_tile
             THEN priority(QueueTop(pq.active_queue), PENDING_TREE).priority_bin
             ELSE EVENTUALLY],
      pending_queue |->
        [has_tile |-> active_queue_has_tile,
         active_priority_bin |->
           IF pending_queue_has_tile
             THEN priority(QueueTop(pq.pending_queue), ACTIVE_TREE).priority_bin
             ELSE EVENTUALLY,
         pending_priority_bin |->
           IF pending_queue_has_tile
             THEN priority(QueueTop(pq.pending_queue), PENDING_TREE).priority_bin
             ELSE EVENTUALLY]]

\* Mutant: the active iterator is selected whenever it holds a tile.
NextTreeActiveFirst(pq, tree_priority) ==
  IF pq.active_queue.null \/ QueueIsEmpty(pq.active_queue)
    THEN PENDING_TREE
    ELSE ACTIVE_TREE

NextTileIteratorTree(pq, tree_priority) ==
  IF pq.active_queue.null \/ QueueIsEmpty(pq.active_queue)
    THEN PENDING_TREE
  ELSE IF pq.pending_queue.null \/ QueueIsEmpty(pq.pending_queue)
    THEN ACTIVE_TREE
  ELSE HigherPriorityTree(tree_priority, pq.active_queue, pq.pending_queue, nullptr)

NextQueue(pq, next_tree) ==
  IF next_tree = ACTIVE_TREE THEN pq.active_queue ELSE pq.pending_queue

\* Mutant: advancing the selected iterator advances its twin as well.
PopNextQueueAndTwin(pq, next_tree) ==
  LET both == [pq EXCEPT !.active_queue = QueuePop(pq.active_queue),
                         !.pending_queue = QueuePop(pq.pending_queue)]
  IN IF QueueIsEmpty(pq.active_queue) \/ QueueIsEmpty(pq.pending_queue)
       THEN IF next_tree = ACTIVE_TREE
              THEN [pq EXCEPT !.active_queue = QueuePop(pq.active_queue)]
              ELSE [pq EXCEPT !.pending_queue = QueuePop(pq.pending_queue)]
       ELSE both

PopNextQueue(pq, next_tree) ==
  IF next_tree = ACTIVE_TREE
    THEN [pq EXCEPT !.active_queue = QueuePop(pq.active_queue)]
    ELSE [pq EXCEPT !.pending_queue = QueuePop(pq.pending_queue)]

\* Mutant: the skip loop is left out.
SkipNothing(pq, tree_priority) == pq

\* Mutant: the loop accepts the shared tile on the tree that does not own it.
RECURSIVE SkipOwnCopy(_, _)
SkipOwnCopy(pq, tree_priority) ==
  IF PairedIsEmpty(pq) THEN pq
  ELSE LET next_tree == NextTileIteratorTree(pq, tree_priority)
           tile == QueueTop(NextQueue(pq, next_tree))
       IN IF ~is_shared(tile) THEN pq
          ELSE IF next_tree # HigherPriorityTree(tree_priority, NullQueue, NullQueue, tile)
            THEN pq
          ELSE SkipOwnCopy(PopNextQueue(pq, next_tree), tree_priority)

\* Mutant: the loop skips every shared tile, whichever tree owns it.
RECURSIVE SkipSharedAlways(_, _)
SkipSharedAlways(pq, tree_priority) ==
  IF PairedIsEmpty(pq) THEN pq
  ELSE LET next_tree == NextTileIteratorTree(pq, tree_priority)
           tile == QueueTop(NextQueue(pq, next_tree))
       IN IF ~is_shared(tile) THEN pq
          ELSE SkipSharedAlways(PopNextQueue(pq, next_tree), tree_priority)

\* Mutant: the loop asks for the owner of tiles that are not shared as well.
RECURSIVE SkipWithoutSharedTest(_, _)
SkipWithoutSharedTest(pq, tree_priority) ==
  IF PairedIsEmpty(pq) THEN pq
  ELSE LET next_tree == NextTileIteratorTree(pq, tree_priority)
           tile == QueueTop(NextQueue(pq, next_tree))
       IN IF next_tree = HigherPriorityTree(tree_priority, NullQueue, NullQueue, tile)
            THEN pq
          ELSE SkipWithoutSharedTest(PopNextQueue(pq, next_tree), tree_priority)

\* Mutant: the loop body runs once.
SkipOnce(pq, tree_priority) ==
  IF PairedIsEmpty(pq) THEN pq
  ELSE LET next_tree == NextTileIteratorTree(pq, tree_priority)
           tile == QueueTop(NextQueue(pq, next_tree))
       IN IF ~is_shared(tile) THEN pq
          ELSE IF next_tree = HigherPriorityTree(tree_priority, NullQueue, NullQueue, tile)
            THEN pq
          ELSE PopNextQueue(pq, next_tree)

RECURSIVE SkipTilesReturnedByTwin(_, _)
SkipTilesReturnedByTwin(pq, tree_priority) ==
  IF PairedIsEmpty(pq) THEN pq
  ELSE LET next_tree == NextTileIteratorTree(pq, tree_priority)
           tile == QueueTop(NextQueue(pq, next_tree))
       IN IF ~is_shared(tile) THEN pq
          ELSE IF next_tree = HigherPriorityTree(tree_priority, NullQueue, NullQueue, tile)
            THEN pq
          ELSE SkipTilesReturnedByTwin(PopNextQueue(pq, next_tree), tree_priority)

\* Mutant: has_both_layers is set when either layer is present.
NewPairedEitherLayer(layer_pair, tree_priority, id) ==
  LET pq == [active_queue |-> layer_pair.active,
             pending_queue |-> layer_pair.pending,
             has_both_layers |-> ~layer_pair.active.null \/ ~layer_pair.pending.null,
             returned_tiles_for_debug |-> {},
             id |-> id]
  IN IF pq.has_both_layers THEN SkipTilesReturnedByTwin(pq, tree_priority) ELSE pq

\* PairedTilingSetQueue::PairedTilingSetQueue(layer_pair, tree_priority)
\* CreateRasterQueue of a layer gives the iterator over the layer's tiles.
NewPairedTilingSetQueue(layer_pair, tree_priority, id) ==
  LET pq == [active_queue |-> layer_pair.active,
             pending_queue |-> layer_pair.pending,
             has_both_layers |-> ~layer_pair.active.null /\ ~layer_pair.pending.null,
             returned_tiles_for_debug |-> {},
             id |-> id]
  IN IF pq.has_both_layers THEN SkipTilesReturnedByTwin(pq, tree_priority) ELSE pq

PairedTop(pq, tree_priority) ==
  QueueTop(NextQueue(pq, NextTileIteratorTree(pq, tree_priority)))

\* Mutant: Pop takes the active iterator whenever it has a tile.
PoppedActiveFirst(pq, tree_priority) ==
  LET next_tree == IF pq.active_queue.null \/ QueueIsEmpty(pq.active_queue)
                     THEN PENDING_TREE ELSE ACTIVE_TREE
  IN [tile |-> QueueTop(NextQueue(pq, next_tree)), pair |-> pq.id, tree |-> next_tree]

\* The inner iterator Pop selects and the tile it records as returned.
PoppedOf(pq, tree_priority) ==
  LET next_tree == NextTileIteratorTree(pq, tree_priority)
  IN [tile |-> QueueTop(NextQueue(pq, next_tree)), pair |-> pq.id, tree |-> next_tree]

\* Mutant: Pop records the tile and leaves the iterator where it is.
PairedPopOnlyRecords(pq, tree_priority) ==
  [pq EXCEPT !.returned_tiles_for_debug = @ \cup {PoppedOf(pq, tree_priority).tile}]

\* Mutant: Pop does not run the skip loop.
PairedPopNoSkip(pq, tree_priority) ==
  LET next_tree == PoppedOf(pq, tree_priority).tree
      recorded == [pq EXCEPT !.returned_tiles_for_debug =
                               @ \cup {PoppedOf(pq, tree_priority).tile}]
  IN PopNextQueue(recorded, next_tree)

PairedPop(pq, tree_priority) ==
  LET next_tree == PoppedOf(pq, tree_priority).tree
      recorded == [pq EXCEPT !.returned_tiles_for_debug =
                               @ \cup {PoppedOf(pq, tree_priority).tile}]
      popped == PopNextQueue(recorded, next_tree)
  IN IF popped.has_both_layers
       THEN SkipTilesReturnedByTwin(popped, tree_priority)
       ELSE popped

(***************************************************************************)
(* RasterOrderComparator: TRUE iff a is strictly lower priority than b.    *)
(***************************************************************************)
\* Mutant: the two non-ideal results are exchanged.
ComparatorNonIdealWins(tree_priority, a, b) ==
  IF PairedIsEmpty(a) \/ PairedIsEmpty(b)
    THEN ~PairedIsEmpty(b) /\ PairedIsEmpty(a)
  ELSE
    LET a_tile == PairedTop(a, tree_priority)
        b_tile == PairedTop(b, tree_priority)
        a_priority == priority_for_tree_priority(a_tile, tree_priority)
        b_priority == priority_for_tree_priority(b_tile, tree_priority)
        prioritize_low_res == tree_priority = SMOOTHNESS_TAKES_PRIORITY
        a_is_pending_now == priority(a_tile, PENDING_TREE).priority_bin = NOW
        b_is_pending_now == priority(b_tile, PENDING_TREE).priority_bin = NOW
    IN IF /\ tree_priority = SMOOTHNESS_TAKES_PRIORITY
          /\ a_priority.priority_bin = EVENTUALLY
          /\ b_priority.priority_bin = EVENTUALLY
          /\ (a_is_pending_now \/ b_is_pending_now)
         THEN ~a_is_pending_now /\ b_is_pending_now
       ELSE IF /\ b_priority.priority_bin = a_priority.priority_bin
               /\ b_priority.resolution # a_priority.resolution
         THEN IF a_priority.resolution = NON_IDEAL_RESOLUTION THEN FALSE
              ELSE IF b_priority.resolution = NON_IDEAL_RESOLUTION THEN TRUE
              ELSE IF prioritize_low_res THEN b_priority.resolution = LOW_RESOLUTION
              ELSE b_priority.resolution = HIGH_RESOLUTION
       ELSE IsHigherPriorityThan(b_priority, a_priority)

\* Mutant: low resolution is never prioritized.
ComparatorNeverLowRes(tree_priority, a, b) ==
  IF PairedIsEmpty(a) \/ PairedIsEmpty(b)
    THEN ~PairedIsEmpty(b) /\ PairedIsEmpty(a)
  ELSE
    LET a_tile == PairedTop(a, tree_priority)
        b_tile == PairedTop(b, tree_priority)
        a_priority == priority_for_tree_priority(a_tile, tree_priority)
        b_priority == priority_for_tree_priority(b_tile, tree_priority)
        prioritize_low_res == FALSE
        a_is_pending_now == priority(a_tile, PENDING_TREE).priority_bin = NOW
        b_is_pending_now == priority(b_tile, PENDING_TREE).priority_bin = NOW
    IN IF /\ tree_priority = SMOOTHNESS_TAKES_PRIORITY
          /\ a_priority.priority_bin = EVENTUALLY
          /\ b_priority.priority_bin = EVENTUALLY
          /\ (a_is_pending_now \/ b_is_pending_now)
         THEN ~a_is_pending_now /\ b_is_pending_now
       ELSE IF /\ b_priority.priority_bin = a_priority.priority_bin
               /\ b_priority.resolution # a_priority.resolution
         THEN IF a_priority.resolution = NON_IDEAL_RESOLUTION THEN TRUE
              ELSE IF b_priority.resolution = NON_IDEAL_RESOLUTION THEN FALSE
              ELSE IF prioritize_low_res THEN b_priority.resolution = LOW_RESOLUTION
              ELSE b_priority.resolution = HIGH_RESOLUTION
       ELSE IsHigherPriorityThan(b_priority, a_priority)

\* Mutant: the pending-NOW rule ranks the pending-NOW tile lower.
ComparatorPendingNowLoses(tree_priority, a, b) ==
  IF PairedIsEmpty(a) \/ PairedIsEmpty(b)
    THEN ~PairedIsEmpty(b) /\ PairedIsEmpty(a)
  ELSE
    LET a_tile == PairedTop(a, tree_priority)
        b_tile == PairedTop(b, tree_priority)
        a_priority == priority_for_tree_priority(a_tile, tree_priority)
        b_priority == priority_for_tree_priority(b_tile, tree_priority)
        prioritize_low_res == tree_priority = SMOOTHNESS_TAKES_PRIORITY
        a_is_pending_now == priority(a_tile, PENDING_TREE).priority_bin = NOW
        b_is_pending_now == priority(b_tile, PENDING_TREE).priority_bin = NOW
    IN IF /\ prioritize_low_res
          /\ a_priority.priority_bin = EVENTUALLY
          /\ b_priority.priority_bin = EVENTUALLY
          /\ (a_is_pending_now \/ b_is_pending_now)
         THEN a_is_pending_now /\ ~b_is_pending_now
       ELSE IF /\ b_priority.priority_bin = a_priority.priority_bin
               /\ b_priority.resolution # a_priority.resolution
         THEN IF a_priority.resolution = NON_IDEAL_RESOLUTION THEN TRUE
              ELSE IF b_priority.resolution = NON_IDEAL_RESOLUTION THEN FALSE
              ELSE IF prioritize_low_res THEN b_priority.resolution = LOW_RESOLUTION
              ELSE b_priority.resolution = HIGH_RESOLUTION
       ELSE IsHigherPriorityThan(b_priority, a_priority)

\* Mutant: the pending-NOW rule applies when either bin is EVENTUALLY.
ComparatorEitherEventually(tree_priority, a, b) ==
  IF PairedIsEmpty(a) \/ PairedIsEmpty(b)
    THEN ~PairedIsEmpty(b) /\ PairedIsEmpty(a)
  ELSE
    LET a_tile == PairedTop(a, tree_priority)
        b_tile == PairedTop(b, tree_priority)
        a_priority == priority_for_tree_priority(a_tile, tree_priority)
        b_priority == priority_for_tree_priority(b_tile, tree_priority)
        prioritize_low_res == tree_priority = SMOOTHNESS_TAKES_PRIORITY
        a_is_pending_now == priority(a_tile, PENDING_TREE).priority_bin = NOW
        b_is_pending_now == priority(b_tile, PENDING_TREE).priority_bin = NOW
    IN IF /\ prioritize_low_res
          /\ (a_priority.priority_bin = EVENTUALLY \/ b_priority.priority_bin = EVENTUALLY)
          /\ (a_is_pending_now \/ b_is_pending_now)
         THEN ~a_is_pending_now /\ b_is_pending_now
       ELSE IF /\ b_priority.priority_bin = a_priority.priority_bin
               /\ b_priority.resolution # a_priority.resolution
         THEN IF a_priority.resolution = NON_IDEAL_RESOLUTION THEN TRUE
              ELSE IF b_priority.resolution = NON_IDEAL_RESOLUTION THEN FALSE
              ELSE IF prioritize_low_res THEN b_priority.resolution = LOW_RESOLUTION
              ELSE b_priority.resolution = HIGH_RESOLUTION
       ELSE IsHigherPriorityThan(b_priority, a_priority)

\* Mutant: the resolution rule applies only when the distances are equal.
ComparatorResolutionAfterDistance(tree_priority, a, b) ==
  IF PairedIsEmpty(a) \/ PairedIsEmpty(b)
    THEN ~PairedIsEmpty(b) /\ PairedIsEmpty(a)
  ELSE
    LET a_tile == PairedTop(a, tree_priority)
        b_tile == PairedTop(b, tree_priority)
        a_priority == priority_for_tree_priority(a_tile, tree_priority)
        b_priority == priority_for_tree_priority(b_tile, tree_priority)
        prioritize_low_res == tree_priority = SMOOTHNESS_TAKES_PRIORITY
        a_is_pending_now == priority(a_tile, PENDING_TREE).priority_bin = NOW
        b_is_pending_now == priority(b_tile, PENDING_TREE).priority_bin = NOW
    IN IF /\ prioritize_low_res
          /\ a_priority.priority_bin = EVENTUALLY
          /\ b_priority.priority_bin = EVENTUALLY
          /\ (a_is_pending_now \/ b_is_pending_now)
         THEN ~a_is_pending_now /\ b_is_pending_now
       ELSE IF /\ b_priority.priority_bin = a_priority.priority_bin
               /\ b_priority.resolution # a_priority.resolution
               /\ b_priority.distance_to_visible = a_priority.distance_to_visible
         THEN IF a_priority.resolution = NON_IDEAL_RESOLUTION THEN TRUE
              ELSE IF b_priority.resolution = NON_IDEAL_RESOLUTION THEN FALSE
              ELSE IF prioritize_low_res THEN b_priority.resolution = LOW_RESOLUTION
              ELSE b_priority.resolution = HIGH_RESOLUTION
       ELSE IsHigherPriorityThan(b_priority, a_priority)

\* Mutant: the fallback compares a against b.
ComparatorFallbackSwapped(tree_priority, a, b) ==
  IF PairedIsEmpty(a) \/ PairedIsEmpty(b)
    THEN ~PairedIsEmpty(b) /\ PairedIsEmpty(a)
  ELSE
    LET a_tile == PairedTop(a, tree_priority)
        b_tile == PairedTop(b, tree_priority)
        a_priority == priority_for_tree_priority(a_tile, tree_priority)
        b_priority == priority_for_tree_priority(b_tile, tree_priority)
        prioritize_low_res == tree_priority = SMOOTHNESS_TAKES_PRIORITY
        a_is_pending_now == priority(a_tile, PENDING_TREE).priority_bin = NOW
        b_is_pending_now == priority(b_tile, PENDING_TREE).priority_bin = NOW
    IN IF /\ prioritize_low_res
          /\ a_priority.priority_bin = EVENTUALLY
          /\ b_priority.priority_bin = EVENTUALLY
          /\ (a_is_pending_now \/ b_is_pending_now)
         THEN ~a_is_pending_now /\ b_is_pending_now
       ELSE IF /\ b_priority.priority_bin = a_priority.priority_bin
               /\ b_priority.resolution # a_priority.resolution
         THEN IF a_priority.resolution = NON_IDEAL_RESOLUTION THEN TRUE
              ELSE IF b_priority.resolution = NON_IDEAL_RESOLUTION THEN FALSE
              ELSE IF prioritize_low_res THEN b_priority.resolution = LOW_RESOLUTION
              ELSE b_priority.resolution = HIGH_RESOLUTION
       ELSE IsHigherPriorityThan(a_priority, b_priority)

\* Mutant: with an empty pair the result is a->IsEmpty().
ComparatorEmptyIsLower(tree_priority, a, b) ==
  IF PairedIsEmpty(a) \/ PairedIsEmpty(b)
    THEN PairedIsEmpty(a)
    ELSE IsHigherPriorityThan(
           priority_for_tree_priority(PairedTop(b, tree_priority), tree_priority),
           priority_for_tree_priority(PairedTop(a, tree_priority), tree_priority))

\* Mutant: a top tile is ranked by its priority on the tree of the iterator
\* it was selected from.
ComparatorBySourceTree(tree_priority, a, b) ==
  IF PairedIsEmpty(a) \/ PairedIsEmpty(b)
    THEN ~PairedIsEmpty(b) /\ PairedIsEmpty(a)
  ELSE
    LET a_tile == PairedTop(a, tree_priority)
        b_tile == PairedTop(b, tree_priority)
        a_priority == priority(a_tile, NextTileIteratorTree(a, tree_priority))
        b_priority == priority(b_tile, NextTileIteratorTree(b, tree_priority))
        prioritize_low_res == tree_priority = SMOOTHNESS_TAKES_PRIORITY
        a_is_pending_now == priority(a_tile, PENDING_TREE).priority_bin = NOW
        b_is_pending_now == priority(b_tile, PENDING_TREE).priority_bin = NOW
    IN IF /\ prioritize_low_res
          /\ a_priority.priority_bin = EVENTUALLY
          /\ b_priority.priority_bin = EVENTUALLY
          /\ (a_is_pending_now \/ b_is_pending_now)
         THEN ~a_is_pending_now /\ b_is_pending_now
       ELSE IF /\ b_priority.priority_bin = a_priority.priority_bin
               /\ b_priority.resolution # a_priority.resolution
         THEN IF a_priority.resolution = NON_IDEAL_RESOLUTION THEN TRUE
              ELSE IF b_priority.resolution = NON_IDEAL_RESOLUTION THEN FALSE
              ELSE IF prioritize_low_res THEN b_priority.resolution = LOW_RESOLUTION
              ELSE b_priority.resolution = HIGH_RESOLUTION
       ELSE IsHigherPriorityThan(b_priority, a_priority)

RasterOrderComparator(tree_priority, a, b) ==
  IF PairedIsEmpty(a) \/ PairedIsEmpty(b)
    THEN ~PairedIsEmpty(b) /\ PairedIsEmpty(a)
  ELSE
    LET a_tile == PairedTop(a, tree_priority)
        b_tile == PairedTop(b, tree_priority)
        a_priority == priority_for_tree_priority(a_tile, tree_priority)
        b_priority == priority_for_tree_priority(b_tile, tree_priority)
        prioritize_low_res == tree_priority = SMOOTHNESS_TAKES_PRIORITY
        a_is_pending_now == priority(a_tile, PENDING_TREE).priority_bin = NOW
        b_is_pending_now == priority(b_tile, PENDING_TREE).priority_bin = NOW
    IN IF /\ prioritize_low_res
          /\ a_priority.priority_bin = EVENTUALLY
          /\ b_priority.priority_bin = EVENTUALLY
          /\ (a_is_pending_now \/ b_is_pending_now)
         THEN ~a_is_pending_now /\ b_is_pending_now
       ELSE IF /\ b_priority.priority_bin = a_priority.priority_bin
               /\ b_priority.resolution # a_priority.resolution
         THEN IF a_priority.resolution = NON_IDEAL_RESOLUTION THEN TRUE
              ELSE IF b_priority.resolution = NON_IDEAL_RESOLUTION THEN FALSE
              ELSE IF prioritize_low_res THEN b_priority.resolution = LOW_RESOLUTION
              ELSE b_priority.resolution = HIGH_RESOLUTION
       ELSE IsHigherPriorityThan(b_priority, a_priority)

(***************************************************************************)
(* ScopedPtrVector::make_heap / pop_heap / push_heap: the binary max-heap  *)
(* primitives over the vector, element 1 being the root.                   *)
(***************************************************************************)
Swap(v, i, j) == [v EXCEPT ![i] = v[j], ![j] = v[i]]

\* The comparator object handed to the heap primitives carries tree_priority.
RECURSIVE SiftDown(_, _, _, _)
SiftDown(v, i, n, comp) ==
  LET l == 2 * i
      r == 2 * i + 1
      m1 == IF l <= n /\ RasterOrderComparator(comp, v[i], v[l]) THEN l ELSE i
      m2 == IF r <= n /\ RasterOrderComparator(comp, v[m1], v[r]) THEN r ELSE m1
  IN IF m2 = i THEN v ELSE SiftDown(Swap(v, i, m2), m2, n, comp)

RECURSIVE SiftUp(_, _, _)
SiftUp(v, i, comp) ==
  IF i > 1 /\ RasterOrderComparator(comp, v[i \div 2], v[i])
    THEN SiftUp(Swap(v, i, i \div 2), i \div 2, comp)
    ELSE v

RECURSIVE HeapifyFrom(_, _, _)
HeapifyFrom(v, i, comp) ==
  IF i < 1 THEN v ELSE HeapifyFrom(SiftDown(v, i, Len(v), comp), i - 1, comp)

make_heap(v, comp) == HeapifyFrom(v, Len(v) \div 2, comp)

pop_heap(v, comp) ==
  IF Len(v) <= 1 THEN v ELSE SiftDown(Swap(v, 1, Len(v)), 1, Len(v) - 1, comp)

push_heap(v, comp) == SiftUp(v, Len(v), comp)

(***************************************************************************)
(* RasterTilePriorityQueue.                                                *)
(***************************************************************************)
IsEmpty == paired_queues_ = <<>> \/ PairedIsEmpty(paired_queues_[1])

\* last: the last public call, what it returned or removed, for a Pop the
\* call that preceded it and for a Build whether a Reset preceded it.
NoCall ==
  [op |-> "none", tile |-> nullptr, pair |-> 0, tree |-> "", empty |-> TRUE,
   prev |-> ""]

\* One PairedTilingSetQueue per layer pair, in the order of paired_layers.
RECURSIVE PushBackAll(_, _, _)
PushBackAll(v, paired_layers, tree_priority) ==
  IF paired_layers = <<>> THEN v
  ELSE PushBackAll(
         Append(v, NewPairedTilingSetQueue(Head(paired_layers), tree_priority,
                                           Len(v) + 1)),
         Tail(paired_layers), tree_priority)

\* Mutant: Build leaves the vector in push_back order.
BuildNoMakeHeap(paired_layers, tree_priority) ==
  /\ tree_priority_' = tree_priority
  /\ paired_queues_' = PushBackAll(paired_queues_, paired_layers, tree_priority)
  /\ built' = built \o paired_layers
  /\ epoch' = IF paired_queues_ = <<>> THEN "built" ELSE "rebuilt"
  /\ last' = [NoCall EXCEPT !.op = "Build",
                             !.prev = IF last.op = "Reset" THEN "Reset" ELSE ""]
  /\ UNCHANGED <<tiles, emitted>>

\* Mutant: Build clears the container before it pushes the new pairs.
BuildClearsFirst(paired_layers, tree_priority) ==
  /\ tree_priority_' = tree_priority
  /\ paired_queues_' =
       make_heap(PushBackAll(<<>>, paired_layers, tree_priority), tree_priority)
  /\ built' = built \o paired_layers
  /\ epoch' = IF paired_queues_ = <<>> THEN "built" ELSE "rebuilt"
  /\ last' = [NoCall EXCEPT !.op = "Build",
                             !.prev = IF last.op = "Reset" THEN "Reset" ELSE ""]
  /\ UNCHANGED <<tiles, emitted>>

Build(paired_layers, tree_priority) ==
  /\ tree_priority_' = tree_priority
  /\ paired_queues_' =
       make_heap(PushBackAll(paired_queues_, paired_layers, tree_priority),
                 tree_priority)
  /\ built' = built \o paired_layers
  /\ epoch' = IF paired_queues_ = <<>> THEN "built" ELSE "rebuilt"
  /\ last' = [NoCall EXCEPT !.op = "Build",
                             !.prev = IF last.op = "Reset" THEN "Reset" ELSE ""]
  /\ UNCHANGED <<tiles, emitted>>

\* Mutant: Reset puts the policy back to the smoothness policy.
ResetClearsPolicy ==
  /\ paired_queues_' = <<>>
  /\ built' = <<>>
  /\ emitted' = <<>>
  /\ epoch' = "fresh"
  /\ last' = [NoCall EXCEPT !.op = "Reset"]
  /\ tree_priority_' = SMOOTHNESS_TAKES_PRIORITY
  /\ UNCHANGED tiles

\* Mutant: Reset keeps the pairs that still hold tiles.
ResetKeepsNonEmpty ==
  /\ paired_queues_' = SelectSeq(paired_queues_, LAMBDA pq : ~PairedIsEmpty(pq))
  /\ built' = <<>>
  /\ emitted' = <<>>
  /\ epoch' = "fresh"
  /\ last' = [NoCall EXCEPT !.op = "Reset"]
  /\ UNCHANGED <<tiles, tree_priority_>>

Reset ==
  /\ paired_queues_' = <<>>
  /\ built' = <<>>
  /\ emitted' = <<>>
  /\ epoch' = "fresh"
  /\ last' = [NoCall EXCEPT !.op = "Reset"]
  /\ UNCHANGED <<tiles, tree_priority_>>

CallIsEmpty ==
  /\ last' = [NoCall EXCEPT !.op = "IsEmpty", !.empty = IsEmpty]
  /\ UNCHANGED <<tiles, tree_priority_, paired_queues_, built, emitted, epoch>>

\* What Top() returns, with the pair and the inner iterator it comes from.
TopOf(pq, tree_priority) ==
  [tile |-> PairedTop(pq, tree_priority), pair |-> pq.id,
   tree |-> NextTileIteratorTree(pq, tree_priority)]

\* Mutant: Top advances the iterator it reads.
TopAdvancing ==
  /\ ~IsEmpty
  /\ LET t == TopOf(paired_queues_[1], tree_priority_)
     IN last' = [op |-> "Top", tile |-> t.tile, pair |-> t.pair, tree |-> t.tree,
                 empty |-> FALSE, prev |-> ""]
  /\ paired_queues_' =
       [paired_queues_ EXCEPT ![1] = PairedPop(paired_queues_[1], tree_priority_)]
  /\ UNCHANGED <<tiles, tree_priority_, built, emitted, epoch>>

Top ==
  /\ ~IsEmpty
  /\ LET t == TopOf(paired_queues_[1], tree_priority_)
     IN last' = [op |-> "Top", tile |-> t.tile, pair |-> t.pair, tree |-> t.tree,
                 empty |-> FALSE, prev |-> ""]
  /\ UNCHANGED <<tiles, tree_priority_, paired_queues_, built, emitted, epoch>>

\* Mutant: Pop removes the pairs it has drained from the container.
PopDropsDrained ==
  /\ ~IsEmpty
  /\ LET popped == pop_heap(paired_queues_, tree_priority_)
         n == Len(popped)
         paired_queue == popped[n]
         t == PoppedOf(paired_queue, tree_priority_)
         advanced == [popped EXCEPT ![n] = PairedPop(paired_queue, tree_priority_)]
     IN /\ paired_queues_' =
             SelectSeq(push_heap(advanced, tree_priority_),
                       LAMBDA pq : ~PairedIsEmpty(pq))
        /\ emitted' = Append(emitted, t)
        /\ last' = [op |-> "Pop", tile |-> t.tile, pair |-> t.pair, tree |-> t.tree,
                    empty |-> FALSE, prev |-> last.op]
  /\ UNCHANGED <<tiles, tree_priority_, built, epoch>>

\* Mutant: Pop leaves the advanced pair at the back, without push_heap.
PopNoPushHeap ==
  /\ ~IsEmpty
  /\ LET popped == pop_heap(paired_queues_, tree_priority_)
         n == Len(popped)
         paired_queue == popped[n]
         t == PoppedOf(paired_queue, tree_priority_)
     IN /\ paired_queues_' =
             [popped EXCEPT ![n] = PairedPop(paired_queue, tree_priority_)]
        /\ emitted' = Append(emitted, t)
        /\ last' = [op |-> "Pop", tile |-> t.tile, pair |-> t.pair, tree |-> t.tree,
                    empty |-> FALSE, prev |-> last.op]
  /\ UNCHANGED <<tiles, tree_priority_, built, epoch>>

\* Mutant: Pop advances the root pair in place, without pop_heap/push_heap.
PopInPlace ==
  /\ ~IsEmpty
  /\ LET t == PoppedOf(paired_queues_[1], tree_priority_)
     IN /\ paired_queues_' =
             [paired_queues_ EXCEPT ![1] = PairedPop(paired_queues_[1], tree_priority_)]
        /\ emitted' = Append(emitted, t)
        /\ last' = [op |-> "Pop", tile |-> t.tile, pair |-> t.pair, tree |-> t.tree,
                    empty |-> FALSE, prev |-> last.op]
  /\ UNCHANGED <<tiles, tree_priority_, built, epoch>>

Pop ==
  /\ ~IsEmpty
  /\ LET popped == pop_heap(paired_queues_, tree_priority_)
         n == Len(popped)
         paired_queue == popped[n]
         t == PoppedOf(paired_queue, tree_priority_)
         advanced == [popped EXCEPT ![n] = PairedPop(paired_queue, tree_priority_)]
     IN /\ paired_queues_' = push_heap(advanced, tree_priority_)
        /\ emitted' = Append(emitted, t)
        /\ last' = [op |-> "Pop", tile |-> t.tile, pair |-> t.pair, tree |-> t.tree,
                    empty |-> FALSE, prev |-> last.op]
  /\ UNCHANGED <<tiles, tree_priority_, built, epoch>>

(***************************************************************************)
(* The inputs: the tile pool and the layer pairs handed to Build.  Tiles   *)
(* are numbered in the order in which the layer pairs enumerate them, the  *)
(* active layer of a pair before its pending layer.                        *)
(***************************************************************************)
TilePriorityPairs ==
  << <<Prio(NOW, HIGH_RESOLUTION, 0), Prio(NOW, HIGH_RESOLUTION, 1)>>,
     <<Prio(EVENTUALLY, LOW_RESOLUTION, 1), Prio(NOW, HIGH_RESOLUTION, 0)>>,
     <<Prio(SOON, LOW_RESOLUTION, 1), Prio(SOON, LOW_RESOLUTION, 1)>>,
     <<Prio(EVENTUALLY, NON_IDEAL_RESOLUTION, 0), Prio(EVENTUALLY, LOW_RESOLUTION, 1)>> >>

TileCatalogue ==
  {MkTile(shared, TilePriorityPairs[k][1], TilePriorityPairs[k][2]) :
     shared \in BOOLEAN, k \in DOMAIN TilePriorityPairs}

TilePools == UNION {[1..n -> TileCatalogue] : n \in 0..NumTiles}

Range(s) == {s[i] : i \in DOMAIN s}

\* The ways a pending layer of len tiles continues: each tile is one the
\* active layer enumerates too (a tile of twins) or the next new tile.
RECURSIVE PendingSeqs(_, _, _)
PendingSeqs(twins, fresh, len) ==
  IF len = 0 THEN {<<>>}
  ELSE {<<>>}
       \cup {<<fresh>> \o rest : rest \in PendingSeqs(twins, fresh + 1, len - 1)}
       \cup UNION {{<<t>> \o rest : rest \in PendingSeqs(twins \ {t}, fresh, len - 1)} :
                   t \in twins}

\* The layer pairs whose new tiles are fresh, fresh + 1, ...: at least one
\* layer is present.
LayerPairsFrom(fresh) ==
  LET Actives == {NullQueue} \cup
                 {RasterQueue([i \in 1..la |-> fresh + i - 1]) : la \in 0..MaxLen}
      Pendings(active) ==
        {NullQueue} \cup
        {RasterQueue(s) :
           s \in PendingSeqs(Range(active.q), fresh + Len(active.q), MaxLen)}
  IN {lp \in UNION {{[active |-> a, pending |-> p] : p \in Pendings(a)} : a \in Actives} :
        /\ ~(lp.active.null /\ lp.pending.null)
        /\ Range(lp.active.q) \cup Range(lp.pending.q) \subseteq 1..NumTiles}

TilesOf(lp) == Range(lp.active.q) \cup Range(lp.pending.q)

\* The tiles the pairs built since the last Reset enumerate.
RECURSIVE TilesOfAll(_)
TilesOfAll(paired_layers) ==
  IF paired_layers = <<>> THEN {}
  ELSE TilesOf(Head(paired_layers)) \cup TilesOfAll(Tail(paired_layers))

HasBothLayers(lp) == ~lp.active.null /\ ~lp.pending.null

NewTiles(lp, fresh) == Cardinality(TilesOf(lp) \ (1..(fresh - 1)))

\* The vectors of at most n layer pairs whose new tiles start at fresh, at
\* most twin of them with both layers.
RECURSIVE PairedLayersFrom(_, _, _)
PairedLayersFrom(fresh, n, twin) ==
  IF n = 0 THEN {<<>>}
  ELSE {<<>>} \cup
       UNION {{<<lp>> \o rest :
                 rest \in PairedLayersFrom(fresh + NewTiles(lp, fresh), n - 1,
                                           IF HasBothLayers(lp) THEN twin - 1 ELSE twin)} :
              lp \in {x \in LayerPairsFrom(fresh) : HasBothLayers(x) => twin > 0}}

SpecPairedLayers ==
  [fresh \in 1..(NumTiles + 1), n \in 0..MaxPairs, twin \in 0..MaxTwinPairs |->
     PairedLayersFrom(fresh, n, twin)]

HeapPairedLayers ==
  [fresh \in 1..(NumTiles + 1), n \in 0..HeapPairs |-> PairedLayersFrom(fresh, n, 0)]

\* A vector Build can be handed in the current state: its tiles are in the
\* pool, and only a shared tile is enumerated by both layers of a pair.
WellFormed(paired_layers) ==
  /\ TilesOfAll(paired_layers) \subseteq DOMAIN tiles
  /\ \A i \in DOMAIN paired_layers :
       \A t \in Range(paired_layers[i].active.q) \cap Range(paired_layers[i].pending.q) :
         tiles[t].is_shared

TwinPairs(paired_layers) ==
  Cardinality({i \in DOMAIN paired_layers : HasBothLayers(paired_layers[i])})

InitQueue ==
  /\ tree_priority_ \in TreePriority
  /\ paired_queues_ = <<>>
  /\ built = <<>>
  /\ emitted = <<>>
  /\ epoch = "fresh"
  /\ last = NoCall

\* Build with one of the vectors inputs.
BuildFrom(inputs) ==
  \E tree_priority \in TreePriority :
    \E paired_layers \in inputs :
      /\ WellFormed(paired_layers)
      /\ Build(paired_layers, tree_priority)

NextFresh == Cardinality(TilesOfAll(built)) + 1

(***************************************************************************)
(* Spec: few pairs over every pool of the catalogue.                       *)
(***************************************************************************)
Init == tiles \in TilePools /\ InitQueue

DoBuild ==
  BuildFrom(SpecPairedLayers[NextFresh, MaxPairs - Len(paired_queues_),
                             MaxTwinPairs - TwinPairs(built)])

Next == DoBuild \/ Reset \/ CallIsEmpty \/ Top \/ Pop

Spec == Init /\ [][Next]_vars

(***************************************************************************)
(* SpecHeap: more pairs, each of one layer, over tiles that are not shared.*)
(***************************************************************************)
HeapPools ==
  UNION {[1..n -> {t \in TileCatalogue : ~t.is_shared}] : n \in 0..NumTiles}

InitHeap == tiles \in HeapPools /\ InitQueue

DoBuildHeap == BuildFrom(HeapPairedLayers[NextFresh, HeapPairs - Len(paired_queues_)])

NextHeap == DoBuildHeap \/ Reset \/ Top \/ Pop

SpecHeap == InitHeap /\ [][NextHeap]_vars

(***************************************************************************)
(* SpecMerge: up to MergePairs pairs of one or two layers over tiles that  *)
(* are not shared and have one bin and one resolution; the distances of a  *)
(* tile in its two priority records are drawn independently.               *)
(***************************************************************************)
MergeTiles ==
  {MkTile(FALSE, Prio(NOW, HIGH_RESOLUTION, da), Prio(NOW, HIGH_RESOLUTION, dp)) :
     da \in 0..MaxDist, dp \in 0..MaxDist}

MergePools == UNION {[1..n -> MergeTiles] : n \in 0..NumTiles}

MergePairedLayers ==
  [fresh \in 1..(NumTiles + 1), n \in 0..MergePairs |->
     PairedLayersFrom(fresh, n, n)]

InitMerge == tiles \in MergePools /\ InitQueue

DoBuildMerge ==
  BuildFrom(MergePairedLayers[NextFresh, MergePairs - Len(paired_queues_)])

NextMerge == DoBuildMerge \/ Reset \/ Pop

SpecMerge == InitMerge /\ [][NextMerge]_vars

(***************************************************************************)
(* SpecScenario: two pairs of two layers over five tiles that are not      *)
(* shared.  Tiles 1 and 2 head the active and the pending layer of the     *)
(* first pair, tiles 3 and 4 those of the second; tile 5 may follow tile 2 *)
(* on the pending layer of the first pair.  The bins the scenario leaves   *)
(* open are drawn from every bin.                                          *)
(***************************************************************************)
ScenarioTiles ==
  LET Res == {HIGH_RESOLUTION, LOW_RESOLUTION}
      Dist == 0..MaxDist
      Fixed(bin) == Prio(bin, HIGH_RESOLUTION, 0)
      T1 == {MkTile(FALSE, Fixed(EVENTUALLY), Fixed(b)) : b \in PriorityBin}
      T2 == {MkTile(FALSE, Prio(b, r, d), Fixed(NOW)) :
               b \in PriorityBin, r \in Res, d \in Dist}
      T3 == {MkTile(FALSE, Prio(SOON, r, d), Fixed(b)) :
               r \in Res, d \in Dist, b \in PriorityBin}
      T4 == {MkTile(FALSE, Fixed(b), Fixed(EVENTUALLY)) : b \in PriorityBin}
      T5 == {MkTile(FALSE, Fixed(b), Fixed(b)) : b \in {NOW, EVENTUALLY}}
  IN {<<t1, t2, t3, t4, t5>> : t1 \in T1, t2 \in T2, t3 \in T3, t4 \in T4, t5 \in T5}

ScenarioLayers ==
  LET p1(rest) == [active |-> RasterQueue(<<1>>), pending |-> RasterQueue(<<2>> \o rest)]
      p2 == [active |-> RasterQueue(<<3>>), pending |-> RasterQueue(<<4>>)]
  IN UNION {{<<p1(rest), p2>>, <<p2, p1(rest)>>} : rest \in {<<>>, <<5>>}}

InitScenario == tiles \in ScenarioTiles /\ InitQueue

DoBuildScenario == paired_queues_ = <<>> /\ BuildFrom(ScenarioLayers)

NextScenario == DoBuildScenario \/ Reset \/ Pop

SpecScenario == InitScenario /\ [][NextScenario]_vars

(***************************************************************************)
(* SpecOrder: two pairs of one layer holding one tile each, tile 1 and     *)
(* tile 2, over every value of the fields a comparator reads.              *)
(***************************************************************************)
OrderTiles ==
  UNION {{MkTile(FALSE, Prio(NOW, HIGH_RESOLUTION, 0), p) : p \in TilePriority},
         {MkTile(FALSE, a, Prio(bin, HIGH_RESOLUTION, 0)) :
            a \in TilePriority, bin \in PriorityBin}}

OrderLayers ==
  LET One(t) == {[active |-> RasterQueue(<<t>>), pending |-> NullQueue],
                 [active |-> NullQueue, pending |-> RasterQueue(<<t>>)]}
  IN UNION {{<<x, y>>, <<y, x>>} : x \in One(1), y \in One(2)}

InitOrder == tiles \in [1..2 -> OrderTiles] /\ InitQueue

DoBuildOrder == paired_queues_ = <<>> /\ BuildFrom(OrderLayers)

NextOrder == DoBuildOrder \/ Reset \/ Pop

SpecOrder == InitOrder /\ [][NextOrder]_vars

(***************************************************************************)
(* SpecCmp: RasterOrderComparator applied to five pairs with fixed tops:   *)
(* pairs 1 and 3 hold one tile on the active layer, pair 2 one tile on the *)
(* pending layer, pairs 4 and 5 are empty.  The tiles take every value of  *)
(* the fields the comparator of the drawn policy reads.                    *)
(***************************************************************************)
ComparedPairs == 1..5

ComparedTiles(tree_priority) ==
  IF tree_priority = NEW_CONTENT_TAKES_PRIORITY
    THEN {MkTile(FALSE, Prio(NOW, HIGH_RESOLUTION, 0), p) : p \in TilePriority}
    ELSE {MkTile(FALSE, a, Prio(bin, HIGH_RESOLUTION, 0)) :
            a \in TilePriority, bin \in PriorityBin}

ComparedLayers ==
  << [active |-> RasterQueue(<<1>>), pending |-> NullQueue],
     [active |-> NullQueue, pending |-> RasterQueue(<<2>>)],
     [active |-> RasterQueue(<<3>>), pending |-> NullQueue],
     [active |-> NullQueue, pending |-> RasterQueue(<<>>)],
     [active |-> RasterQueue(<<>>), pending |-> RasterQueue(<<>>)] >>

InitCmp ==
  /\ InitQueue
  /\ tiles \in [1..3 -> ComparedTiles(tree_priority_)]

Compare ==
  /\ last.op = "none"
  /\ LET pq == [i \in ComparedPairs |->
                  NewPairedTilingSetQueue(ComparedLayers[i], tree_priority_, i)]
     IN last' = [op |-> "Compare",
                 lower |-> [i \in ComparedPairs |->
                              [j \in ComparedPairs |->
                                 RasterOrderComparator(tree_priority_, pq[i], pq[j])]]]
  /\ UNCHANGED <<tiles, tree_priority_, paired_queues_, built, emitted, epoch>>

SpecCmp == InitCmp /\ [][Compare]_vars

(***************************************************************************)
(* SpecRank: RasterOrderComparator applied to pairs whose tops come from   *)
(* the active iterator (pairs 1 and 3), from the pending iterator (pair 2) *)
(* and from the iterator the arbiter selects in a pair of two layers       *)
(* (pairs 4 and 5).  The tiles are those of SpecCmp.                        *)
(***************************************************************************)
Rank ==
  /\ last.op = "none"
  /\ LET layers ==
           << [active |-> RasterQueue(<<1>>), pending |-> NullQueue],
              [active |-> NullQueue, pending |-> RasterQueue(<<2>>)],
              [active |-> RasterQueue(<<3>>), pending |-> NullQueue],
              [active |-> RasterQueue(<<1>>), pending |-> RasterQueue(<<2>>)],
              [active |-> RasterQueue(<<3>>), pending |-> RasterQueue(<<2>>)] >>
         pq == [i \in ComparedPairs |->
                  NewPairedTilingSetQueue(layers[i], tree_priority_, i)]
     IN last' = [op |-> "Rank",
                 top |-> [i \in ComparedPairs |-> PairedTop(pq[i], tree_priority_)],
                 tree |-> [i \in ComparedPairs |->
                             NextTileIteratorTree(pq[i], tree_priority_)],
                 lower |-> [i \in ComparedPairs |->
                              [j \in ComparedPairs |->
                                 RasterOrderComparator(tree_priority_, pq[i], pq[j])]]]
  /\ UNCHANGED <<tiles, tree_priority_, paired_queues_, built, emitted, epoch>>

SpecRank == InitCmp /\ [][Rank]_vars

(***************************************************************************)
(* SpecSelect: the arbiter applied to a pair of two layers with tile 1 on  *)
(* top of the active iterator and tile 2 on top of the pending one, and    *)
(* the comparator applied to a pair topped by tile 1 and a pair topped by  *)
(* tile 2.  Both tiles take every value of both priority records.          *)
(***************************************************************************)
InitSelect ==
  /\ InitQueue
  /\ tiles \in [1..2 -> {MkTile(FALSE, a, p) : a \in TilePriority, p \in TilePriority}]

Select ==
  /\ last.op = "none"
  /\ LET both == NewPairedTilingSetQueue(
                   [active |-> RasterQueue(<<1>>), pending |-> RasterQueue(<<2>>)],
                   tree_priority_, 1)
         active_top == NewPairedTilingSetQueue(
                         [active |-> RasterQueue(<<1>>), pending |-> NullQueue],
                         tree_priority_, 2)
         pending_top == NewPairedTilingSetQueue(
                          [active |-> NullQueue, pending |-> RasterQueue(<<2>>)],
                          tree_priority_, 3)
     IN last' = [op |-> "Select",
                 tree |-> NextTileIteratorTree(both, tree_priority_),
                 tile |-> PairedTop(both, tree_priority_),
                 lower |-> [tree \in WhichTree |->
                              IF tree = ACTIVE_TREE
                                THEN RasterOrderComparator(tree_priority_, active_top,
                                                           pending_top)
                                ELSE RasterOrderComparator(tree_priority_, pending_top,
                                                           active_top)]]
  /\ UNCHANGED <<tiles, tree_priority_, paired_queues_, built, emitted, epoch>>

SpecSelect == InitSelect /\ [][Select]_vars

(***************************************************************************)
(* SpecRebuild: the operations of SpecMerge, up to MergePairs pairs of one *)
(* or two layers handed to Build in one call or in several, with or        *)
(* without a Reset between them, over shared and non-shared tiles whose    *)
(* owner tree differs from one policy to another.                          *)
(***************************************************************************)
RebuildTiles ==
  {MkTile(shared, TilePriorityPairs[k][1], TilePriorityPairs[k][2]) :
     shared \in BOOLEAN, k \in 1..2}

InitRebuild ==
  /\ tiles \in UNION {[1..n -> RebuildTiles] : n \in 0..NumTiles}
  /\ InitQueue

SpecRebuild == InitRebuild /\ [][NextMerge]_vars

(***************************************************************************)
(* SpecArb: HigherPriorityTree applied to two iterators, tile 1 on top of  *)
(* the active one and tile 2 on top of the pending one, and applied with   *)
(* tile 1 as shared_tile next to every pair of iterators.  The tiles take  *)
(* every value of the priority records.                                    *)
(***************************************************************************)
ArbTiles ==
  {<<MkTile(TRUE, a, p), MkTile(FALSE, Prio(bin, HIGH_RESOLUTION, 0), q)>> :
     a \in TilePriority, p \in TilePriority, bin \in PriorityBin, q \in TilePriority}

ArbQueues == {NullQueue, RasterQueue(<<>>), RasterQueue(<<1>>), RasterQueue(<<2>>)}

InitArb == InitQueue /\ tiles \in ArbTiles

Arbitrate ==
  /\ last.op = "none"
  /\ last' = [op |-> "HigherPriorityTree",
              tree |-> HigherPriorityTree(tree_priority_, RasterQueue(<<1>>),
                                          RasterQueue(<<2>>), nullptr),
              owner |-> [a \in ArbQueues |->
                           [p \in ArbQueues |->
                              HigherPriorityTree(tree_priority_, a, p, 1)]]]
  /\ UNCHANGED <<tiles, tree_priority_, paired_queues_, built, emitted, epoch>>

SpecArb == InitArb /\ [][Arbitrate]_vars

(***************************************************************************)
(* SpecValue: StateAsValue applied to the pairs constructed from every     *)
(* two iterators of ArbQueues, absent, empty or holding a tile, over the   *)
(* tiles of SpecArb.                                                       *)
(***************************************************************************)
TraceState ==
  /\ last.op = "none"
  /\ LET pq == [a \in ArbQueues |->
                  [p \in ArbQueues |->
                     NewPairedTilingSetQueue([active |-> a, pending |-> p],
                                             tree_priority_, 1)]]
     IN last' = [op |-> "StateAsValue",
                 pair |-> pq,
                 state |-> [a \in ArbQueues |->
                              [p \in ArbQueues |-> StateAsValue(pq[a][p])]]]
  /\ UNCHANGED <<tiles, tree_priority_, paired_queues_, built, emitted, epoch>>

SpecValue == InitArb /\ [][TraceState]_vars

(***************************************************************************)
(* History helpers.                                                        *)
(***************************************************************************)
EmittedTiles == {emitted[k].tile : k \in DOMAIN emitted}

TimesEmitted(t) == Cardinality({k \in DOMAIN emitted : emitted[k].tile = t})

\* The tiles both layers of the layer pair enumerate.
TwinTiles(lp) == Range(lp.active.q) \cap Range(lp.pending.q)

\* The tree that owns a shared tile under the recorded policy.
OwnerTree(t) == HigherPriorityTree(tree_priority_, NullQueue, NullQueue, t)

PopStep == Len(emitted') = Len(emitted) + 1

\* The pair of the container that was built from the id-th layer pair.
PairById(v, id) == v[CHOOSE i \in DOMAIN v : v[i].id = id]

HasTile(queue) == ~queue.null /\ ~QueueIsEmpty(queue)

(***************************************************************************)
(* C1 No duplicates: in a queue built once since construction or the last  *)
(* Reset, no tile is emitted twice, and no tile already emitted is the top *)
(* of any pair in the container, so no later Top() returns it.             *)
(***************************************************************************)
C1_NoDuplicates ==
  epoch = "built" =>
    /\ \A j, k \in DOMAIN emitted : j # k => emitted[j].tile # emitted[k].tile
    /\ \A i \in DOMAIN paired_queues_ :
         ~PairedIsEmpty(paired_queues_[i]) =>
           PairedTop(paired_queues_[i], tree_priority_) \notin EmittedTiles

\* A drained queue whose pair enumerated a shared tile on both layers.
C1_Witness ==
  /\ epoch = "built" /\ IsEmpty /\ Len(emitted) >= 2
  /\ \E i \in DOMAIN built : TwinTiles(built[i]) \cap EmittedTiles # {}

(***************************************************************************)
(* C2 Shared-tile emission: in a queue built once, a shared tile that both *)
(* layers of a pair enumerate is emitted at most once, only by that pair   *)
(* and only from the tree HigherPriorityTree(policy, null, null, tile)     *)
(* names; when the queue is drained it has been emitted exactly once.      *)
(***************************************************************************)
C2_SharedTileEmission ==
  epoch = "built" =>
    \A i \in DOMAIN built : \A t \in TwinTiles(built[i]) :
      /\ TimesEmitted(t) <= 1
      /\ \A k \in DOMAIN emitted :
           emitted[k].tile = t =>
             emitted[k].pair = i /\ emitted[k].tree = OwnerTree(t)
      /\ IsEmpty => TimesEmitted(t) = 1

\* The spiral quirk: the pending layer reaches the shared tile first, the
\* active tree owns it and emits it, and the queue is drained.
C2_Witness ==
  /\ epoch = "built" /\ IsEmpty
  /\ \E i \in DOMAIN built : \E t \in TwinTiles(built[i]) :
       /\ Head(built[i].pending.q) = t
       /\ Head(built[i].active.q) # t
       /\ \E k \in DOMAIN emitted :
            emitted[k].tile = t /\ emitted[k].tree = ACTIVE_TREE

(***************************************************************************)
(* C3 Heap well-formedness: in every state, so after every Build and every *)
(* Pop, no element of paired_queues_ is ranked strictly above its parent   *)
(* by RasterOrderComparator(tree_priority_).                               *)
(***************************************************************************)
C3_HeapWellFormed ==
  \A i \in 2..Len(paired_queues_) :
    ~RasterOrderComparator(tree_priority_, paired_queues_[i \div 2], paired_queues_[i])

\* Three pairs after a Pop: the pair it advanced still has a tile and has
\* left the root.
C3_Witness ==
  /\ Len(paired_queues_) = 3
  /\ last.op = "Pop"
  /\ \E i \in 2..3 :
       paired_queues_[i].id = last.pair /\ ~PairedIsEmpty(paired_queues_[i])

(***************************************************************************)
(* C4 Highest priority first: the root pair is not ranked strictly below   *)
(* any pair of the container, and the tile a Pop emits comes from the pair *)
(* that was the root.                                                      *)
(***************************************************************************)
RootIsMaximal ==
  \A i \in DOMAIN paired_queues_ :
    ~RasterOrderComparator(tree_priority_, paired_queues_[1], paired_queues_[i])

C4_HighestPriorityFirst ==
  /\ [](~IsEmpty => RootIsMaximal)
  /\ [][PopStep => emitted'[Len(emitted')].pair = paired_queues_[1].id]_vars

\* Three pairs, the root strictly above both others, which are not empty.
C4_Witness ==
  /\ Len(paired_queues_) = 3
  /\ \A i \in 2..3 :
       /\ ~PairedIsEmpty(paired_queues_[i])
       /\ RasterOrderComparator(tree_priority_, paired_queues_[i], paired_queues_[1])

(***************************************************************************)
(* C5 Strict weak order: for each policy RasterOrderComparator is          *)
(* irreflexive, asymmetric and transitive over pairs with fixed tops,      *)
(* empty pairs included, and incomparability is transitive.                *)
(***************************************************************************)
C5_StrictWeakOrder ==
  last.op = "Compare" =>
    LET Lower(i, j) == last.lower[i][j]
        Incomparable(i, j) == ~Lower(i, j) /\ ~Lower(j, i)
    IN /\ \A i \in ComparedPairs : ~Lower(i, i)
       /\ \A i, j \in ComparedPairs : Lower(i, j) => ~Lower(j, i)
       /\ \A i, j, k \in ComparedPairs : Lower(i, j) /\ Lower(j, k) => Lower(i, k)
       /\ \A i, j, k \in ComparedPairs :
            Incomparable(i, j) /\ Incomparable(j, k) => Incomparable(i, k)

\* A strict chain of three non-empty pairs, decided under the smoothness
\* policy by the pending-NOW rule and by the resolution rule.
C5_Witness ==
  /\ last.op = "Compare"
  /\ tree_priority_ = SMOOTHNESS_TAKES_PRIORITY
  /\ last.lower[1][2] /\ last.lower[2][3] /\ last.lower[1][3]
  /\ \A i \in 1..3 : tiles[i].active.priority_bin = EVENTUALLY
  /\ tiles[3].pending.priority_bin = NOW /\ tiles[2].pending.priority_bin # NOW
  /\ tiles[1].active.resolution = NON_IDEAL_RESOLUTION

(***************************************************************************)
(* C6 Empty dominance: an empty pair is strictly lower than every          *)
(* non-empty pair, no non-empty pair is lower than an empty one, and two   *)
(* empty pairs are equivalent; the comparison is defined although an empty *)
(* pair has no top to read.                                                *)
(***************************************************************************)
C6_EmptyDominance ==
  last.op = "Compare" =>
    /\ \A e \in {4, 5} : \A n \in 1..3 : last.lower[e][n] /\ ~last.lower[n][e]
    /\ \A e, f \in {4, 5} : ~last.lower[e][f]

\* Compared: an empty pair against a non-empty pair whose top is an
\* EVENTUALLY tile of non-ideal resolution, the lowest a tile can rank.
C6_Witness ==
  /\ last.op = "Compare"
  /\ last.lower[4][1] /\ ~last.lower[4][5]
  /\ priority_for_tree_priority(1, tree_priority_) =
       Prio(EVENTUALLY, NON_IDEAL_RESOLUTION, MaxDist)

(***************************************************************************)
(* C7 IsEmpty: in every state IsEmpty() is true iff every pair of the      *)
(* container is empty or there is none, so an empty pair is never the root *)
(* while another pair has a tile; and no tile is emitted by a pair whose   *)
(* layers enumerated no tile at Build.                                     *)
(***************************************************************************)
C7_IsEmptyIffAllEmpty ==
  /\ IsEmpty <=> \A i \in DOMAIN paired_queues_ : PairedIsEmpty(paired_queues_[i])
  /\ \A k \in DOMAIN emitted : emitted[k].tile \in TilesOf(built[emitted[k].pair])

\* Three pairs, one of them empty since Build, drained by Pops of the two
\* others.
C7_Witness ==
  /\ Len(paired_queues_) = 3 /\ IsEmpty /\ last.op = "Pop"
  /\ \E i \in DOMAIN built : TilesOf(built[i]) = {}
  /\ Cardinality({emitted[k].pair : k \in DOMAIN emitted}) = 2

(***************************************************************************)
(* C8 Idempotent Top: a Top() or IsEmpty() call changes neither the        *)
(* iterators, the heap order, nor the recorded policy; the tile a Top()    *)
(* returned is the tile Top() returns in the state it leaves, and two      *)
(* consecutive Top() calls return the same tile.                           *)
(***************************************************************************)
C8_TopIdempotent ==
  /\ [][last'.op \in {"Top", "IsEmpty"} =>
          /\ UNCHANGED <<tiles, tree_priority_, paired_queues_, built, emitted, epoch>>
          /\ (last.op = "Top" /\ last'.op = "Top") => last'.tile = last.tile]_vars
  /\ [](last.op = "Top" =>
          /\ ~IsEmpty
          /\ last.tile = PairedTop(paired_queues_[1], tree_priority_))

\* Top() answered from a pair whose two iterators both hold a tile, after
\* an earlier Pop.
C8_Witness ==
  /\ last.op = "Top" /\ emitted # <<>>
  /\ HasTile(paired_queues_[1].active_queue)
  /\ HasTile(paired_queues_[1].pending_queue)

(***************************************************************************)
(* C9 Top/Pop agreement: a Pop() that directly follows a Top() removes     *)
(* and records the tile that Top() returned, from the same pair and the    *)
(* same inner iterator, whose head it was.                                 *)
(***************************************************************************)
C9_TopPopAgreement ==
  [][(last.op = "Top" /\ last'.op = "Pop") =>
       /\ last'.tile = last.tile /\ last'.pair = last.pair /\ last'.tree = last.tree
       /\ emitted' = Append(emitted, [tile |-> last.tile, pair |-> last.pair,
                                      tree |-> last.tree])
       /\ LET before == NextQueue(PairById(paired_queues_, last.pair), last.tree)
              after == NextQueue(PairById(paired_queues_', last.pair), last.tree)
          IN /\ QueueTop(before) = last.tile
             /\ last.tile \notin Range(after.q)]_vars

\* A Pop right after a Top, taken from the pending iterator of a pair whose
\* active iterator still holds a tile.
C9_Witness ==
  /\ last.op = "Pop" /\ last.prev = "Top" /\ last.tree = PENDING_TREE
  /\ HasTile(paired_queues_[1].active_queue)

(***************************************************************************)
(* C10 Policy monotonicity: a Pop under NEW_CONTENT_TAKES_PRIORITY from a  *)
(* pair with both iterators takes the tile from the pending iterator       *)
(* unless the pending iterator is empty when the Pop is made.              *)
(***************************************************************************)
C10_NewContentEmitsPending ==
  [][(PopStep /\ tree_priority_ = NEW_CONTENT_TAKES_PRIORITY) =>
       LET e == emitted'[Len(emitted')]
           pq == PairById(paired_queues_, e.pair)
       IN (pq.has_both_layers /\ e.tree = ACTIVE_TREE) =>
            QueueIsEmpty(pq.pending_queue)]_vars

\* Under the new-content policy a two-layer pair has emitted from the
\* pending iterator, drained it, and then emitted from the active one.
C10_Witness ==
  /\ tree_priority_ = NEW_CONTENT_TAKES_PRIORITY /\ epoch = "built"
  /\ last.op = "Pop" /\ last.tree = ACTIVE_TREE
  /\ PairById(paired_queues_, last.pair).has_both_layers
  /\ \E k \in DOMAIN emitted : emitted[k].tree = PENDING_TREE

(***************************************************************************)
(* C11 Merge law.  The heads are the tiles the iterators of all pairs      *)
(* return next; the distance of a head is the distance of its tile in the  *)
(* tree of the iterator.  As amended: under SAME_PRIORITY_FOR_BOTH_TREES,  *)
(* with tiles that are not shared, have one bin and one resolution, and    *)
(* each carry the same distance in both priority records, every Pop emits  *)
(* a head whose distance is the smallest among the heads, so the emitted   *)
(* sequence is a merge by distance of the iterators.                       *)
(***************************************************************************)
Heads ==
  UNION {{[tile |-> QueueTop(NextQueue(paired_queues_[i], tree)), tree |-> tree] :
            tree \in {w \in WhichTree : HasTile(NextQueue(paired_queues_[i], w))}} :
         i \in DOMAIN paired_queues_}

OwnDistance(h) == priority(h.tile, h.tree).distance_to_visible

MergeCase ==
  /\ tree_priority_ = SAME_PRIORITY_FOR_BOTH_TREES
  /\ \A t \in DOMAIN tiles : ~is_shared(t)
  /\ \A t, u \in DOMAIN tiles : \A v, w \in WhichTree :
       /\ priority(t, v).priority_bin = priority(u, w).priority_bin
       /\ priority(t, v).resolution = priority(u, w).resolution

SingleDistance ==
  \A t \in DOMAIN tiles :
    priority(t, ACTIVE_TREE).distance_to_visible =
      priority(t, PENDING_TREE).distance_to_visible

EmitsNearestHead ==
  LET e == emitted'[Len(emitted')]
      head == [tile |-> e.tile, tree |-> e.tree]
  IN /\ head \in Heads
     /\ \A h \in Heads : OwnDistance(head) <= OwnDistance(h)

C11_MergeLaw ==
  [][(PopStep /\ MergeCase /\ SingleDistance) => EmitsNearestHead]_vars

\* C11 as stated: the merge law for tiles whose two priority records may
\* carry different distances.
C11_MergeLawAnyDistances ==
  [][(PopStep /\ MergeCase) => EmitsNearestHead]_vars

\* A drained queue of two pairs under the same-priority policy, one pair of
\* two layers that emitted from both, with tiles at different distances.
C11_Witness ==
  /\ MergeCase /\ SingleDistance /\ epoch = "built" /\ IsEmpty
  /\ Len(paired_queues_) = 2 /\ Len(emitted) = 3
  /\ \E j, k \in DOMAIN emitted :
       /\ j < k /\ emitted[j].pair = emitted[k].pair
       /\ emitted[j].tree = ACTIVE_TREE /\ emitted[k].tree = PENDING_TREE
  /\ \E t, u \in DOMAIN tiles :
       priority(t, ACTIVE_TREE).distance_to_visible #
         priority(u, ACTIVE_TREE).distance_to_visible

(***************************************************************************)
(* C12 Invariant I2: a pair that Build has just constructed, or that Pop   *)
(* has just advanced, under the policy of that call, if it has both        *)
(* iterators and is not empty, has as the top of its selected iterator a   *)
(* tile that is not shared or a shared tile that                           *)
(* HigherPriorityTree(policy, null, null, tile) assigns to that iterator.  *)
(***************************************************************************)
RightfulTop(pq, tree_priority) ==
  (pq.has_both_layers /\ ~PairedIsEmpty(pq)) =>
    LET next_tree == NextTileIteratorTree(pq, tree_priority)
        tile == QueueTop(NextQueue(pq, next_tree))
    IN \/ ~is_shared(tile)
       \/ HigherPriorityTree(tree_priority, NullQueue, NullQueue, tile) = next_tree

C12_RightfulTop ==
  [][\A i \in DOMAIN paired_queues_' :
       (\/ paired_queues_'[i].id > Len(paired_queues_)
        \/ PopStep /\ paired_queues_'[i].id = emitted'[Len(emitted')].pair)
         => RightfulTop(paired_queues_'[i], tree_priority_')]_vars

\* After a Pop the pair shows a shared tile on the iterator that owns it,
\* and a shared tile of its layers has been skipped: it is neither emitted
\* nor still to come.
C12_Witness ==
  /\ last.op = "Pop" /\ epoch = "built" /\ ~IsEmpty
  /\ paired_queues_[1].has_both_layers
  /\ is_shared(PairedTop(paired_queues_[1], tree_priority_))
  /\ \E t \in TilesOf(built[1]) :
       /\ is_shared(t) /\ t \notin EmittedTiles /\ t \notin TwinTiles(built[1])
       /\ t \notin Range(paired_queues_[1].active_queue.q)
       /\ t \notin Range(paired_queues_[1].pending_queue.q)

(***************************************************************************)
(* C13 Scenario 2.  P1 is a pair built with an active head of active bin   *)
(* EVENTUALLY and a pending head of pending bin NOW, P2 one with an active *)
(* head of active bin SOON and a pending head of pending bin EVENTUALLY.   *)
(* As amended: under SMOOTHNESS_TAKES_PRIORITY, when each iterator holds   *)
(* one tile, none shared, and the pending head of P1 has active bin NOW,   *)
(* the first Pop takes from the pending iterator of P1 and the second from *)
(* the active iterator of P2.                                              *)
(***************************************************************************)
HeadBin(queue, tree) == priority(Head(queue.q), tree).priority_bin

IsP1(lp) ==
  /\ HasBothLayers(lp) /\ lp.active.q # <<>> /\ lp.pending.q # <<>>
  /\ HeadBin(lp.active, ACTIVE_TREE) = EVENTUALLY
  /\ HeadBin(lp.pending, PENDING_TREE) = NOW

IsP2(lp) ==
  /\ HasBothLayers(lp) /\ lp.active.q # <<>> /\ lp.pending.q # <<>>
  /\ HeadBin(lp.active, ACTIVE_TREE) = SOON
  /\ HeadBin(lp.pending, PENDING_TREE) = EVENTUALLY

Scenario2(p1, p2) ==
  /\ epoch = "built" /\ tree_priority_ = SMOOTHNESS_TAKES_PRIORITY
  /\ DOMAIN built = {p1, p2} /\ p1 # p2
  /\ IsP1(built[p1]) /\ IsP2(built[p2])

FirstP1PendingThenP2Active(p1, p2) ==
  /\ Len(emitted) >= 1 =>
       emitted[1].pair = p1 /\ emitted[1].tree = PENDING_TREE
  /\ Len(emitted) >= 2 =>
       emitted[2].pair = p2 /\ emitted[2].tree = ACTIVE_TREE

OneTileEach ==
  \A i \in DOMAIN built : Len(built[i].active.q) = 1 /\ Len(built[i].pending.q) = 1

C13_Scenario2 ==
  \A p1, p2 \in DOMAIN built :
    (/\ Scenario2(p1, p2) /\ OneTileEach
     /\ HeadBin(built[p1].pending, ACTIVE_TREE) = NOW)
      => FirstP1PendingThenP2Active(p1, p2)

\* C13 as stated: whatever the active bin of the pending head of P1 and
\* whatever follows the heads.
C13_Scenario2AsStated ==
  \A p1, p2 \in DOMAIN built :
    Scenario2(p1, p2) => FirstP1PendingThenP2Active(p1, p2)

\* The scenario after its two Pops, with P1 built after P2.
C13_Witness ==
  /\ Scenario2(2, 1) /\ OneTileEach
  /\ HeadBin(built[2].pending, ACTIVE_TREE) = NOW
  /\ Len(emitted) = 2 /\ last.op = "Pop"

(***************************************************************************)
(* C14 Non-ideal resolution loses.  Two pairs hold one tile each; the      *)
(* priority of a tile is priority_for_tree_priority of the policy.  As     *)
(* amended: when the two tiles have the same bin, one NON_IDEAL_RESOLUTION *)
(* and one HIGH_RESOLUTION, the HIGH_RESOLUTION tile is emitted first      *)
(* under every policy and whatever the distances, except under             *)
(* SMOOTHNESS_TAKES_PRIORITY with both bins EVENTUALLY when the non-ideal  *)
(* tile has pending bin NOW: the pending-NOW rule then decides, for the    *)
(* non-ideal tile or, when both have pending bin NOW, for neither.         *)
(***************************************************************************)
SelectedPriority(t) == priority_for_tree_priority(t, tree_priority_)

PendingBin(t) == priority(t, PENDING_TREE).priority_bin

TwoTops == epoch = "built" /\ Len(built) = 2 /\ DOMAIN tiles = 1..2

NonIdealAgainstHigh(x, y) ==
  /\ TwoTops /\ x # y
  /\ SelectedPriority(x).priority_bin = SelectedPriority(y).priority_bin
  /\ SelectedPriority(x).resolution = NON_IDEAL_RESOLUTION
  /\ SelectedPriority(y).resolution = HIGH_RESOLUTION

PendingNowOverride(x, y) ==
  /\ tree_priority_ = SMOOTHNESS_TAKES_PRIORITY
  /\ SelectedPriority(x).priority_bin = EVENTUALLY
  /\ SelectedPriority(y).priority_bin = EVENTUALLY
  /\ PendingBin(x) = NOW

EmittedFirst(y) == emitted # <<>> => emitted[1].tile = y

C14_NonIdealLoses ==
  \A x, y \in DOMAIN tiles :
    (NonIdealAgainstHigh(x, y) /\ ~PendingNowOverride(x, y)) => EmittedFirst(y)

\* C14 as stated: whatever the pending-tree bins.
C14_NonIdealLosesAnyPendingBin ==
  \A x, y \in DOMAIN tiles : NonIdealAgainstHigh(x, y) => EmittedFirst(y)

\* Smoothness, both tiles EVENTUALLY and neither with pending bin NOW: the
\* nearer non-ideal tile of the pair built first is emitted second.
C14_Witness ==
  /\ NonIdealAgainstHigh(1, 2) /\ tree_priority_ = SMOOTHNESS_TAKES_PRIORITY
  /\ SelectedPriority(1).priority_bin = EVENTUALLY
  /\ PendingBin(1) # NOW /\ PendingBin(2) # NOW
  /\ SelectedPriority(1).distance_to_visible < SelectedPriority(2).distance_to_visible
  /\ TilesOf(built[1]) = {1}
  /\ Len(emitted) = 2 /\ emitted[1].tile = 2 /\ emitted[2].tile = 1

(***************************************************************************)
(* C15 Smoothness low-res preference: two pairs hold one tile each, both   *)
(* of bin SOON, one LOW_RESOLUTION at the larger distance and one          *)
(* HIGH_RESOLUTION at the smaller; under SMOOTHNESS_TAKES_PRIORITY the     *)
(* LOW_RESOLUTION tile is emitted first.                                   *)
(***************************************************************************)
LowResAgainstHigh(x, y) ==
  /\ TwoTops /\ x # y
  /\ tree_priority_ = SMOOTHNESS_TAKES_PRIORITY
  /\ SelectedPriority(x).priority_bin = SOON
  /\ SelectedPriority(y).priority_bin = SOON
  /\ SelectedPriority(x).resolution = LOW_RESOLUTION
  /\ SelectedPriority(y).resolution = HIGH_RESOLUTION
  /\ SelectedPriority(x).distance_to_visible > SelectedPriority(y).distance_to_visible

C15_SmoothnessLowResFirst ==
  \A x, y \in DOMAIN tiles : LowResAgainstHigh(x, y) => EmittedFirst(x)

\* Both tiles emitted, the farther low-resolution tile first although its
\* pair was built second.
C15_Witness ==
  /\ LowResAgainstHigh(2, 1)
  /\ TilesOf(built[1]) = {1}
  /\ Len(emitted) = 2 /\ emitted[1].tile = 2 /\ emitted[2].tile = 1

(***************************************************************************)
(* C16 Single-sided pair: a queue holding one pair built with one          *)
(* iterator only has emitted, under any policy, the first tiles of that    *)
(* iterator in its order and from its tree, shared or not, holds the rest  *)
(* in the iterator, and is empty exactly when all of them are emitted.     *)
(***************************************************************************)
SingleSided == Len(built) = 1 /\ ~HasBothLayers(built[1])

OnlyTree == IF built[1].active.null THEN PENDING_TREE ELSE ACTIVE_TREE

OnlyLayer == IF built[1].active.null THEN built[1].pending.q ELSE built[1].active.q

C16_SingleSidedPair ==
  SingleSided =>
    /\ Len(emitted) <= Len(OnlyLayer)
    /\ \A k \in DOMAIN emitted :
         emitted[k] = [tile |-> OnlyLayer[k], pair |-> 1, tree |-> OnlyTree]
    /\ NextQueue(paired_queues_[1], OnlyTree).q =
         SubSeq(OnlyLayer, Len(emitted) + 1, Len(OnlyLayer))
    /\ IsEmpty <=> Len(emitted) = Len(OnlyLayer)

\* An active-only pair drained of two tiles, the first of them a shared
\* tile that the policy assigns to the pending tree.
C16_Witness ==
  /\ SingleSided /\ OnlyTree = ACTIVE_TREE /\ IsEmpty /\ Len(emitted) = 2
  /\ is_shared(emitted[1].tile)
  /\ OwnerTree(emitted[1].tile) = PENDING_TREE

(***************************************************************************)
(* C17 Lifecycle: a Reset leaves no pair in the container and IsEmpty()    *)
(* true; the Build that follows a Reset leaves exactly the pairs           *)
(* constructed from the elements of its argument, one for each.            *)
(***************************************************************************)
ConstructedFrom(paired_layers, tree_priority) ==
  {NewPairedTilingSetQueue(paired_layers[k], tree_priority, k) :
     k \in DOMAIN paired_layers}

C17_Lifecycle ==
  [][/\ last'.op = "Reset" => (paired_queues_' = <<>> /\ IsEmpty')
     /\ (last.op = "Reset" /\ last'.op = "Build") =>
          /\ Len(paired_queues_') = Len(built')
          /\ Range(paired_queues_') = ConstructedFrom(built', tree_priority_')]_vars

\* A Build of three pairs right after a Reset.
C17_Witness ==
  /\ last.op = "Build" /\ last.prev = "Reset"
  /\ Len(paired_queues_) = 3 /\ ~IsEmpty

(***************************************************************************)
(* C18 Termination of the drain loop: every Pop strictly decreases the     *)
(* number of tiles the iterators still hold, no step gives an iterator     *)
(* back a tile it has passed, and the tiles emitted never outnumber the    *)
(* tiles the layers enumerated; the number of tiles held is the variant of *)
(* the loop that pops while IsEmpty() is false, which ends when it is 0.   *)
(***************************************************************************)
RECURSIVE Remaining(_)
Remaining(v) ==
  IF v = <<>> THEN 0
  ELSE Len(Head(v).active_queue.q) + Len(Head(v).pending_queue.q) + Remaining(Tail(v))

RECURSIVE Enumerated(_)
Enumerated(paired_layers) ==
  IF paired_layers = <<>> THEN 0
  ELSE Len(Head(paired_layers).active.q) + Len(Head(paired_layers).pending.q)
       + Enumerated(Tail(paired_layers))

IsSuffix(s, t) == Len(s) <= Len(t) /\ s = SubSeq(t, Len(t) - Len(s) + 1, Len(t))

NoRewind ==
  \A i \in DOMAIN paired_queues_ : \A j \in DOMAIN paired_queues_' :
    paired_queues_[i].id = paired_queues_'[j].id =>
      /\ IsSuffix(paired_queues_'[j].active_queue.q, paired_queues_[i].active_queue.q)
      /\ IsSuffix(paired_queues_'[j].pending_queue.q, paired_queues_[i].pending_queue.q)

C18_DrainTerminates ==
  /\ [][(PopStep => Remaining(paired_queues_') < Remaining(paired_queues_))
        /\ NoRewind]_vars
  /\ [](Len(emitted) <= Enumerated(built))
  /\ [](Remaining(paired_queues_) = 0 <=> IsEmpty)

\* A queue drained by two Pops of a pair whose layers enumerated more tiles
\* than were emitted.
C18_Witness ==
  /\ epoch = "built" /\ IsEmpty /\ last.op = "Pop"
  /\ Len(emitted) = 2 /\ Enumerated(built) > 2

(***************************************************************************)
(* C19 Assertion validity.  The DCHECKs of PairedTilingSetQueue::Top: the  *)
(* pair is not empty, the selected iterator exists and holds a tile, and   *)
(* its top is not in returned_tiles_for_debug.  Pop asserts the same of    *)
(* the tile it records, and after advancing that the pair is empty or its  *)
(* Top passes.  As stated: in every state where the queue is not empty the *)
(* assertions of Top and Pop pass on the root pair, and after every Pop    *)
(* the closing assertion passes on the pair advanced.                      *)
(***************************************************************************)
TopDchecks(pq, tree_priority) ==
  /\ ~PairedIsEmpty(pq)
  /\ HasTile(NextQueue(pq, NextTileIteratorTree(pq, tree_priority)))
  /\ PairedTop(pq, tree_priority) \notin pq.returned_tiles_for_debug

PopClosingDcheck(pq, tree_priority) ==
  PairedIsEmpty(pq) \/ TopDchecks(pq, tree_priority)

C19_AssertionsHold ==
  /\ [](~IsEmpty => TopDchecks(paired_queues_[1], tree_priority_))
  /\ [][PopStep =>
          PopClosingDcheck(PairById(paired_queues_', emitted'[Len(emitted')].pair),
                           tree_priority_')]_vars

(***************************************************************************)
(* C20 Comparator step 3.  The pairs compared are pairs 1 to 3, which hold *)
(* a tile.  As amended: under SMOOTHNESS_TAKES_PRIORITY, when both tops    *)
(* have bin EVENTUALLY, a is lower than b iff b alone has pending bin NOW  *)
(* when at least one has it, so two tops with pending bin NOW are          *)
(* equivalent whatever their resolutions and distances; when neither has   *)
(* it the result is that of the resolution rule and then of the fallback.  *)
(***************************************************************************)
ResolutionThenFallback(tree_priority, a_priority, b_priority) ==
  IF /\ b_priority.priority_bin = a_priority.priority_bin
     /\ b_priority.resolution # a_priority.resolution
    THEN IF a_priority.resolution = NON_IDEAL_RESOLUTION THEN TRUE
         ELSE IF b_priority.resolution = NON_IDEAL_RESOLUTION THEN FALSE
         ELSE IF tree_priority = SMOOTHNESS_TAKES_PRIORITY
           THEN b_priority.resolution = LOW_RESOLUTION
         ELSE b_priority.resolution = HIGH_RESOLUTION
    ELSE IsHigherPriorityThan(b_priority, a_priority)

BothEventually(i, j) ==
  /\ last.op = "Compare" /\ tree_priority_ = SMOOTHNESS_TAKES_PRIORITY
  /\ SelectedPriority(i).priority_bin = EVENTUALLY
  /\ SelectedPriority(j).priority_bin = EVENTUALLY

FallsThrough(i, j) ==
  last.lower[i][j] =
    ResolutionThenFallback(tree_priority_, SelectedPriority(i), SelectedPriority(j))

C20_PendingNowOverride ==
  \A i, j \in 1..3 :
    BothEventually(i, j) =>
      IF PendingBin(i) = NOW \/ PendingBin(j) = NOW
        THEN last.lower[i][j] <=> (PendingBin(i) # NOW /\ PendingBin(j) = NOW)
        ELSE FallsThrough(i, j)

\* C20 as stated: two tops with pending bin NOW fall through as well.
C20_BothNowFallThrough ==
  \A i, j \in 1..3 :
    BothEventually(i, j) =>
      IF (PendingBin(i) = NOW) # (PendingBin(j) = NOW)
        THEN last.lower[i][j] <=> PendingBin(j) = NOW
        ELSE FallsThrough(i, j)

\* Tops 1 and 3 both with pending bin NOW, non-ideal against high
\* resolution: neither is lower; top 2 without it is lower than both.
C20_Witness ==
  /\ BothEventually(1, 3) /\ BothEventually(1, 2)
  /\ PendingBin(1) = NOW /\ PendingBin(3) = NOW /\ PendingBin(2) # NOW
  /\ SelectedPriority(1).resolution = NON_IDEAL_RESOLUTION
  /\ SelectedPriority(3).resolution = HIGH_RESOLUTION
  /\ ~last.lower[1][3] /\ ~last.lower[3][1]
  /\ last.lower[2][1] /\ last.lower[2][3]

(***************************************************************************)
(* C21 Comparator step 4.  The pairs compared are pairs 1 to 3, which hold *)
(* a tile.  When the pending-NOW rule has not decided and the two selected *)
(* priorities have the same bin and different resolutions, a is lower than *)
(* b iff a is of non-ideal resolution or, neither being non-ideal, b has   *)
(* the resolution the policy prefers: low resolution under                 *)
(* SMOOTHNESS_TAKES_PRIORITY, high resolution under the two others.  The   *)
(* distances are not read.                                                 *)
(***************************************************************************)
Compared == last.op = "Compare"

Step3Decides(i, j) ==
  /\ tree_priority_ = SMOOTHNESS_TAKES_PRIORITY
  /\ SelectedPriority(i).priority_bin = EVENTUALLY
  /\ SelectedPriority(j).priority_bin = EVENTUALLY
  /\ (PendingBin(i) = NOW \/ PendingBin(j) = NOW)

Step4Decides(i, j) ==
  /\ ~Step3Decides(i, j)
  /\ SelectedPriority(i).priority_bin = SelectedPriority(j).priority_bin
  /\ SelectedPriority(i).resolution # SelectedPriority(j).resolution

PreferredResolution ==
  IF tree_priority_ = SMOOTHNESS_TAKES_PRIORITY THEN LOW_RESOLUTION ELSE HIGH_RESOLUTION

C21_ResolutionRule ==
  \A i, j \in 1..3 :
    (Compared /\ Step4Decides(i, j)) =>
      (last.lower[i][j] <=>
         \/ SelectedPriority(i).resolution = NON_IDEAL_RESOLUTION
         \/ /\ SelectedPriority(j).resolution # NON_IDEAL_RESOLUTION
            /\ SelectedPriority(j).resolution = PreferredResolution)

\* Top 1 of low resolution and farther, top 3 of high resolution and nearer,
\* both SOON under the smoothness policy: top 3 is the lower one.
C21_Witness ==
  /\ Compared /\ Step4Decides(1, 3)
  /\ tree_priority_ = SMOOTHNESS_TAKES_PRIORITY
  /\ SelectedPriority(1).priority_bin = SOON
  /\ SelectedPriority(1).resolution = LOW_RESOLUTION
  /\ SelectedPriority(3).resolution = HIGH_RESOLUTION
  /\ SelectedPriority(1).distance_to_visible > SelectedPriority(3).distance_to_visible
  /\ last.lower[3][1] /\ ~last.lower[1][3]

(***************************************************************************)
(* C22 Comparator step 5.  When neither the pending-NOW rule nor the       *)
(* resolution rule decides, a is lower than b iff b has the higher bin     *)
(* (NOW over SOON over EVENTUALLY) or the same bin and a strictly smaller  *)
(* distance_to_visible; the resolutions are not read, and two priorities   *)
(* of the same bin, resolution and distance are lower neither way.         *)
(***************************************************************************)
Step5Decides(i, j) == ~Step3Decides(i, j) /\ ~Step4Decides(i, j)

BinOrder == [bin \in PriorityBin |->
               IF bin = NOW THEN 2 ELSE IF bin = SOON THEN 1 ELSE 0]

C22_Fallback ==
  \A i, j \in 1..3 :
    (Compared /\ Step5Decides(i, j)) =>
      LET a == SelectedPriority(i)
          b == SelectedPriority(j)
      IN /\ last.lower[i][j] <=>
              \/ BinOrder[b.priority_bin] > BinOrder[a.priority_bin]
              \/ /\ b.priority_bin = a.priority_bin
                 /\ b.distance_to_visible < a.distance_to_visible
         /\ (a = b) => (~last.lower[i][j] /\ ~last.lower[j][i])

\* Tops 1 and 2 of different bins and resolutions, the nearer one in the
\* lower bin: the bin decides.  Tops 1 and 3 with equal priorities: neither
\* is lower.
C22_Witness ==
  /\ Compared /\ Step5Decides(1, 2) /\ Step5Decides(1, 3)
  /\ SelectedPriority(1).priority_bin = SOON
  /\ SelectedPriority(2).priority_bin = NOW
  /\ SelectedPriority(1).resolution # SelectedPriority(2).resolution
  /\ SelectedPriority(1).distance_to_visible < SelectedPriority(2).distance_to_visible
  /\ last.lower[1][2] /\ ~last.lower[2][1]
  /\ SelectedPriority(1) = SelectedPriority(3)
  /\ ~last.lower[1][3] /\ ~last.lower[3][1]

(***************************************************************************)
(* C23 Arbiter under SMOOTHNESS_TAKES_PRIORITY.  Applied to the two        *)
(* iterators, HigherPriorityTree returns PENDING_TREE exactly when the     *)
(* active bin of the active top is EVENTUALLY and the pending bin of the   *)
(* pending top is NOW, and ACTIVE_TREE otherwise, whatever the resolutions *)
(* and distances.                                                          *)
(***************************************************************************)
Arbitrated == last.op = "HigherPriorityTree"

ActiveTopPriority == priority(1, ACTIVE_TREE)

PendingTopPriority == priority(2, PENDING_TREE)

C23_SmoothnessArbiter ==
  (Arbitrated /\ tree_priority_ = SMOOTHNESS_TAKES_PRIORITY) =>
    last.tree = IF /\ ActiveTopPriority.priority_bin = EVENTUALLY
                   /\ PendingTopPriority.priority_bin = NOW
                  THEN PENDING_TREE
                  ELSE ACTIVE_TREE

\* Active SOON, of non-ideal resolution and farther, against pending NOW:
\* the active tree.
C23_Witness ==
  /\ Arbitrated /\ tree_priority_ = SMOOTHNESS_TAKES_PRIORITY
  /\ ActiveTopPriority = Prio(SOON, NON_IDEAL_RESOLUTION, 1)
  /\ PendingTopPriority = Prio(NOW, HIGH_RESOLUTION, 0)
  /\ last.tree = ACTIVE_TREE

(***************************************************************************)
(* C24 Arbiter under SAME_PRIORITY_FOR_BOTH_TREES.  Applied to the two     *)
(* iterators, HigherPriorityTree returns ACTIVE_TREE iff the active        *)
(* priority of the active top has the higher bin, or the same bin and a    *)
(* strictly smaller distance, than the pending priority of the pending     *)
(* top; otherwise, ties of bin and distance included, PENDING_TREE.        *)
(***************************************************************************)
ActiveStrictlyHigher(a, p) ==
  \/ BinOrder[a.priority_bin] > BinOrder[p.priority_bin]
  \/ /\ a.priority_bin = p.priority_bin
     /\ a.distance_to_visible < p.distance_to_visible

C24_SamePriorityArbiter ==
  (Arbitrated /\ tree_priority_ = SAME_PRIORITY_FOR_BOTH_TREES) =>
    last.tree = IF ActiveStrictlyHigher(ActiveTopPriority, PendingTopPriority)
                  THEN ACTIVE_TREE
                  ELSE PENDING_TREE

\* A tie of bin and distance, the active top of the better resolution: the
\* pending tree.
C24_Witness ==
  /\ Arbitrated /\ tree_priority_ = SAME_PRIORITY_FOR_BOTH_TREES
  /\ ActiveTopPriority = Prio(SOON, HIGH_RESOLUTION, 1)
  /\ PendingTopPriority = Prio(SOON, NON_IDEAL_RESOLUTION, 1)
  /\ last.tree = PENDING_TREE

(***************************************************************************)
(* C25 Ownership of a shared tile.  Applied with tile 1 as shared_tile,    *)
(* HigherPriorityTree returns the same tree next to every pair of          *)
(* iterators (absent, empty, headed by tile 1 or by tile 2): the tree the  *)
(* policy names for the active priority of tile 1 against the pending      *)
(* priority of tile 1, PENDING_TREE under NEW_CONTENT_TAKES_PRIORITY.      *)
(***************************************************************************)
OwnerByTileAlone(t) ==
  LET a == priority(t, ACTIVE_TREE)
      p == priority(t, PENDING_TREE)
  IN CASE tree_priority_ = NEW_CONTENT_TAKES_PRIORITY -> PENDING_TREE
       [] tree_priority_ = SMOOTHNESS_TAKES_PRIORITY ->
            IF a.priority_bin = EVENTUALLY /\ p.priority_bin = NOW
              THEN PENDING_TREE ELSE ACTIVE_TREE
       [] tree_priority_ = SAME_PRIORITY_FOR_BOTH_TREES ->
            IF ActiveStrictlyHigher(a, p) THEN ACTIVE_TREE ELSE PENDING_TREE

C25_SharedTileOwner ==
  Arbitrated =>
    \A a \in ArbQueues : \A p \in ArbQueues : last.owner[a][p] = OwnerByTileAlone(1)

\* The tops of the two iterators name the pending tree while tile 1, asked
\* about next to the same iterators, is owned by the active tree.
C25_Witness ==
  /\ Arbitrated /\ tree_priority_ = SMOOTHNESS_TAKES_PRIORITY
  /\ ActiveTopPriority.priority_bin = EVENTUALLY
  /\ priority(1, PENDING_TREE).priority_bin = SOON
  /\ PendingTopPriority.priority_bin = NOW
  /\ last.tree = PENDING_TREE
  /\ last.owner[RasterQueue(<<1>>)][RasterQueue(<<2>>)] = ACTIVE_TREE

(***************************************************************************)
(* C26 NextTileIteratorTree on a pair that is not empty, as Top and Pop    *)
(* use it on the root pair: PENDING_TREE when the active iterator is       *)
(* absent or empty, ACTIVE_TREE when the active iterator holds a tile and  *)
(* the pending one is absent or empty, and the result of                   *)
(* HigherPriorityTree on the two iterators when both hold a tile.  The     *)
(* iterator selected is present and holds a tile.                          *)
(***************************************************************************)
SelectedTree(pq) ==
  IF ~HasTile(pq.active_queue) THEN PENDING_TREE
  ELSE IF ~HasTile(pq.pending_queue) THEN ACTIVE_TREE
  ELSE HigherPriorityTree(tree_priority_, pq.active_queue, pq.pending_queue, nullptr)

C26_NextTileIteratorTree ==
  /\ [](last.op = "Top" =>
          /\ last.tree = SelectedTree(paired_queues_[1])
          /\ HasTile(NextQueue(paired_queues_[1], last.tree)))
  /\ [][PopStep =>
          /\ last'.tree = SelectedTree(paired_queues_[1])
          /\ HasTile(NextQueue(paired_queues_[1], last'.tree))]_vars

\* Both iterators hold a tile and the arbiter names the pending tree.
C26_Witness ==
  /\ last.op = "Top"
  /\ HasTile(paired_queues_[1].active_queue)
  /\ HasTile(paired_queues_[1].pending_queue)
  /\ tree_priority_ = SMOOTHNESS_TAKES_PRIORITY
  /\ last.tree = PENDING_TREE

(***************************************************************************)
(* C27 Scenario 3.  One pair of two layers built under                     *)
(* SAME_PRIORITY_FOR_BOTH_TREES, both layers headed by the shared tile X   *)
(* whose active priority beats its pending priority by distance, the       *)
(* queue built once since it was constructed or Reset.  As amended: the    *)
(* first Pop takes X from the active iterator, X is taken once, and after  *)
(* it X is not on the iterator the pair selects; the pending iterator may  *)
(* still be parked on X while the active iterator is the selected one.     *)
(***************************************************************************)
Scenario3(X) ==
  /\ epoch = "built" /\ tree_priority_ = SAME_PRIORITY_FOR_BOTH_TREES
  /\ Len(built) = 1 /\ HasBothLayers(built[1])
  /\ built[1].active.q # <<>> /\ built[1].pending.q # <<>>
  /\ Head(built[1].active.q) = X /\ Head(built[1].pending.q) = X
  /\ is_shared(X)
  /\ priority(X, ACTIVE_TREE).priority_bin = priority(X, PENDING_TREE).priority_bin
  /\ priority(X, ACTIVE_TREE).distance_to_visible
       < priority(X, PENDING_TREE).distance_to_visible

EmittedOnceFromActive(X) ==
  /\ emitted[1].tile = X /\ emitted[1].tree = ACTIVE_TREE
  /\ TimesEmitted(X) = 1

NotOnSelected(X, pq) ==
  \/ PairedIsEmpty(pq)
  \/ X \notin Range(NextQueue(pq, NextTileIteratorTree(pq, tree_priority_)).q)

C27_Scenario3 ==
  \A X \in DOMAIN tiles :
    (Scenario3(X) /\ emitted # <<>>) =>
      /\ EmittedOnceFromActive(X)
      /\ NotOnSelected(X, paired_queues_[1])

\* C27 as stated: after the first Pop the pending iterator is past X.
C27_Scenario3AsStated ==
  \A X \in DOMAIN tiles :
    (Scenario3(X) /\ emitted # <<>>) =>
      /\ EmittedOnceFromActive(X)
      /\ X \notin Range(paired_queues_[1].pending_queue.q)

\* After the first Pop the active iterator is selected again and the
\* pending iterator still has X on top.
C27_Witness ==
  \E X \in DOMAIN tiles :
    /\ Scenario3(X) /\ Len(emitted) = 1 /\ EmittedOnceFromActive(X)
    /\ NextTileIteratorTree(paired_queues_[1], tree_priority_) = ACTIVE_TREE
    /\ HasTile(paired_queues_[1].pending_queue)
    /\ QueueTop(paired_queues_[1].pending_queue) = X

(***************************************************************************)
(* The runs of the skip loop: one in the constructor of every pair of two  *)
(* layers Build pushes, and one in every Pop of such a pair, after the     *)
(* tile emitted has been recorded and removed.                             *)
(***************************************************************************)
\* The pair as the constructor hands it to the loop.
Unskipped(layer_pair, id) ==
  [active_queue |-> layer_pair.active, pending_queue |-> layer_pair.pending,
   has_both_layers |-> TRUE, returned_tiles_for_debug |-> {}, id |-> id]

\* The pair as Pop hands it to the loop.
PoppedBeforeSkip(pq, tree_priority) ==
  PopNextQueue([pq EXCEPT !.returned_tiles_for_debug =
                            @ \cup {PoppedOf(pq, tree_priority).tile}],
               PoppedOf(pq, tree_priority).tree)

\* The runs of a step: the pair a run starts with, the pair it exits with
\* and the policy it is given.
SkipRuns ==
  {[start |-> Unskipped(built'[i], i), exit |-> PairById(paired_queues_', i),
    tree_priority |-> tree_priority_'] :
     i \in {j \in (Len(paired_queues_) + 1)..Len(paired_queues_') :
              HasBothLayers(built'[j])}}
  \cup
  IF PopStep
    THEN IF PairById(paired_queues_, last'.pair).has_both_layers
           THEN {[start |-> PoppedBeforeSkip(PairById(paired_queues_, last'.pair),
                                             tree_priority_),
                  exit |-> PairById(paired_queues_', last'.pair),
                  tree_priority |-> tree_priority_]}
           ELSE {}
    ELSE {}

\* The pair at the head of each iteration of the loop, the last one being
\* the pair the loop exits with.
RECURSIVE SkipIterations(_, _)
SkipIterations(pq, tree_priority) ==
  IF PairedIsEmpty(pq) THEN <<pq>>
  ELSE LET next_tree == NextTileIteratorTree(pq, tree_priority)
           tile == QueueTop(NextQueue(pq, next_tree))
       IN IF ~is_shared(tile) THEN <<pq>>
          ELSE IF next_tree = HigherPriorityTree(tree_priority, NullQueue, NullQueue, tile)
            THEN <<pq>>
          ELSE <<pq>> \o SkipIterations(PopNextQueue(pq, next_tree), tree_priority)

Held(pq) == Len(pq.active_queue.q) + Len(pq.pending_queue.q)

OtherTree(tree) == IF tree = ACTIVE_TREE THEN PENDING_TREE ELSE ACTIVE_TREE

(***************************************************************************)
(* C28 Termination of the skip loop.  In every run each iteration that     *)
(* does not exit removes exactly the top tile of the iterator selected in  *)
(* it and leaves the other iterator as it is, so the iterations that do    *)
(* not exit are at most the tiles the pair held; the run ends with the     *)
(* pair empty or the top of its selected iterator accepted: not shared, or *)
(* shared and owned by the selected tree.                                  *)
(***************************************************************************)
RemovesSelectedTop(pq, next, tree_priority) ==
  LET selected == NextTileIteratorTree(pq, tree_priority)
  IN /\ NextQueue(next, selected).q = Tail(NextQueue(pq, selected).q)
     /\ NextQueue(next, OtherTree(selected)) = NextQueue(pq, OtherTree(selected))
     /\ Held(next) = Held(pq) - 1

TerminatingRun(start, exit, tree_priority) ==
  LET run == SkipIterations(start, tree_priority)
  IN /\ run[Len(run)] = exit
     /\ \A k \in 1..(Len(run) - 1) : RemovesSelectedTop(run[k], run[k + 1], tree_priority)
     /\ Len(run) - 1 <= Held(start)
     /\ RightfulTop(exit, tree_priority)

C28_SkipTerminates ==
  [][\A r \in SkipRuns : TerminatingRun(r.start, r.exit, r.tree_priority)]_vars

\* A Pop whose run takes two iterations that do not exit: tile 1 emitted
\* from the active iterator, then tiles 1 and 2 removed from the pending
\* iterator, neither owned by the pending tree.
C28_Witness ==
  /\ epoch = "built" /\ last.op = "Pop" /\ Len(emitted) = 1
  /\ tree_priority_ = SAME_PRIORITY_FOR_BOTH_TREES
  /\ built = <<[active |-> RasterQueue(<<1>>), pending |-> RasterQueue(<<1, 2>>)]>>
  /\ is_shared(1) /\ OwnerTree(1) = ACTIVE_TREE
  /\ is_shared(2) /\ OwnerTree(2) = ACTIVE_TREE
  /\ emitted[1].tile = 1 /\ emitted[1].tree = ACTIVE_TREE
  /\ PairedIsEmpty(paired_queues_[1])

(***************************************************************************)
(* C29 Worst case of one run of the skip loop.  Dropped is what a run      *)
(* removes from one iterator.  As amended: a run removes only shared       *)
(* tiles, each from the iterator of the tree that does not own it; under   *)
(* NEW_CONTENT_TAKES_PRIORITY that is the active iterator alone, under the *)
(* two other policies one run can remove tiles from both iterators.        *)
(***************************************************************************)
Dropped(start, exit, tree) ==
  SubSeq(NextQueue(start, tree).q, 1,
         Len(NextQueue(start, tree).q) - Len(NextQueue(exit, tree).q))

DropsUnownedCopies(start, exit, tree_priority) ==
  /\ \A tree \in WhichTree :
       /\ IsSuffix(NextQueue(exit, tree).q, NextQueue(start, tree).q)
       /\ \A k \in DOMAIN Dropped(start, exit, tree) :
            LET tile == Dropped(start, exit, tree)[k]
            IN /\ is_shared(tile)
               /\ HigherPriorityTree(tree_priority, NullQueue, NullQueue, tile) # tree
  /\ tree_priority = NEW_CONTENT_TAKES_PRIORITY =>
       Dropped(start, exit, PENDING_TREE) = <<>>

\* Every shared tile of the layer pair is enumerated by both layers.
SharedOnBothLayers(lp) == \A t \in TilesOf(lp) : is_shared(t) => t \in TwinTiles(lp)

DropsFromOneSide(start, exit, tree_priority) ==
  SharedOnBothLayers(built'[start.id]) =>
    \/ Dropped(start, exit, ACTIVE_TREE) = <<>>
    \/ Dropped(start, exit, PENDING_TREE) = <<>>

C29_SkipRunDrops ==
  [][\A r \in SkipRuns : DropsUnownedCopies(r.start, r.exit, r.tree_priority)]_vars

\* C29 as stated: a run removes tiles from one iterator at most, here of
\* the pairs whose shared tiles are on both layers.
C29_SkipRunOneSide ==
  [][\A r \in SkipRuns : DropsFromOneSide(r.start, r.exit, r.tree_priority)]_vars

\* Both layers enumerate the shared tiles 1 and 2, tile 1 owned by the
\* active tree and tile 2 by the pending tree.  The Pop of tile 1 from the
\* active iterator is followed by a run that removes tile 2 from the active
\* iterator and then tile 1 from the pending iterator.
C29_Witness ==
  /\ epoch = "built" /\ last.op = "Pop" /\ Len(emitted) = 1
  /\ tree_priority_ = SMOOTHNESS_TAKES_PRIORITY
  /\ built = <<[active |-> RasterQueue(<<1, 2>>), pending |-> RasterQueue(<<1, 2>>)]>>
  /\ OwnerTree(1) = ACTIVE_TREE /\ OwnerTree(2) = PENDING_TREE
  /\ emitted[1].tile = 1 /\ emitted[1].tree = ACTIVE_TREE
  /\ paired_queues_[1].active_queue.q = <<>>
  /\ paired_queues_[1].pending_queue.q = <<2>>

(***************************************************************************)
(* C30 Frame of Pop.  A Pop advances the iterators of the pair that was    *)
(* the root and of no other pair; the container keeps its length and its   *)
(* pairs, a drained pair included, in positions that may change; the       *)
(* policy recorded stays.                                                  *)
(***************************************************************************)
PairIds(v) == {v[i].id : i \in DOMAIN v}

Advanced(pq, next) ==
  /\ IsSuffix(next.active_queue.q, pq.active_queue.q)
  /\ IsSuffix(next.pending_queue.q, pq.pending_queue.q)
  /\ Held(next) < Held(pq)

C30_PopFrame ==
  [][PopStep =>
       /\ last'.pair = paired_queues_[1].id
       /\ Len(paired_queues_') = Len(paired_queues_)
       /\ PairIds(paired_queues_') = PairIds(paired_queues_)
       /\ \A i \in DOMAIN paired_queues_ :
            LET pq == paired_queues_[i]
                next == PairById(paired_queues_', pq.id)
            IN IF i = 1 THEN Advanced(pq, next) ELSE next = pq
       /\ tree_priority_' = tree_priority_]_vars

\* Three pairs after a Pop that drained the pair it advanced: the pair is
\* in the container, below a root that holds a tile.
C30_Witness ==
  /\ last.op = "Pop" /\ Len(paired_queues_) = 3 /\ ~IsEmpty
  /\ PairedIsEmpty(PairById(paired_queues_, last.pair))
  /\ paired_queues_[1].id # last.pair

(***************************************************************************)
(* C31 The policy recorded.  tree_priority_ changes in a Build step only:  *)
(* IsEmpty, Top, Pop and Reset leave it as it is.  What Top returns, what  *)
(* Pop takes and the pair Pop leaves behind are those the arbiter and the  *)
(* skip loop give under the policy recorded, and the pairs a Build pushes  *)
(* are constructed under the policy the Build records.                     *)
(***************************************************************************)
DecidedUnderPolicy ==
  /\ last'.op = "Top" =>
       /\ last'.tile = PairedTop(paired_queues_[1], tree_priority_)
       /\ last'.tree = NextTileIteratorTree(paired_queues_[1], tree_priority_)
  /\ PopStep =>
       /\ last'.tile = PairedTop(paired_queues_[1], tree_priority_)
       /\ last'.tree = NextTileIteratorTree(paired_queues_[1], tree_priority_)
       /\ PairById(paired_queues_', last'.pair) =
            PairedPop(paired_queues_[1], tree_priority_)
  /\ \A i \in (Len(paired_queues_) + 1)..Len(paired_queues_') :
       PairById(paired_queues_', i) =
         NewPairedTilingSetQueue(built'[i], tree_priority_', i)

C31_PolicySnapshot ==
  [][/\ last'.op # "Build" => tree_priority_' = tree_priority_
     /\ DecidedUnderPolicy]_vars

\* A pair of two layers, a second Build on the queue that holds it, and
\* the Pop of a shared tile that follows the second Build.
C31_Witness ==
  /\ epoch = "rebuilt" /\ last.op = "Pop" /\ last.prev = "Build"
  /\ Len(built) = 1 /\ HasBothLayers(built[1])
  /\ is_shared(last.tile)

(***************************************************************************)
(* C32 Tiles removed from an iterator.  A Pop emits one tile, the first    *)
(* one it removes from the iterator it selects on the root pair.  Every    *)
(* other tile a Pop removes, and every tile the construction of a pair     *)
(* removes, is a shared tile of a pair of two layers, removed from the     *)
(* iterator of the tree that HigherPriorityTree(policy, null, null, tile)  *)
(* does not name.                                                          *)
(***************************************************************************)
Discardable(pq, tile, tree, tree_priority) ==
  /\ pq.has_both_layers
  /\ is_shared(tile)
  /\ HigherPriorityTree(tree_priority, NullQueue, NullQueue, tile) # tree

BuildRemovals ==
  \A i \in (Len(paired_queues_) + 1)..Len(paired_queues_') :
    LET pq == [Unskipped(built'[i], i) EXCEPT
                 !.has_both_layers = HasBothLayers(built'[i])]
        next == PairById(paired_queues_', i)
    IN \A tree \in WhichTree :
         /\ IsSuffix(NextQueue(next, tree).q, NextQueue(pq, tree).q)
         /\ \A k \in DOMAIN Dropped(pq, next, tree) :
              Discardable(pq, Dropped(pq, next, tree)[k], tree, tree_priority_')

C32_OnlyUnownedCopiesDiscarded ==
  [][/\ PopStep =>
          LET pq == paired_queues_[1]
              next == PairById(paired_queues_', pq.id)
              selected == last'.tree
          IN /\ emitted' = Append(emitted, [tile |-> last'.tile, pair |-> pq.id,
                                            tree |-> selected])
             /\ \A tree \in WhichTree :
                  /\ IsSuffix(NextQueue(next, tree).q, NextQueue(pq, tree).q)
                  /\ \A k \in DOMAIN Dropped(pq, next, tree) :
                       IF tree = selected /\ k = 1
                         THEN Dropped(pq, next, tree)[k] = last'.tile
                         ELSE Discardable(pq, Dropped(pq, next, tree)[k], tree,
                                          tree_priority_)
     /\ BuildRemovals]_vars

\* After a Pop of a queue built once: a shared tile of both layers has been
\* emitted and is on neither iterator, its other copy discarded, and the
\* tiles removed are one more than the tiles emitted.
C32_Witness ==
  /\ last.op = "Pop" /\ epoch = "built" /\ Len(built) = 1
  /\ Enumerated(built) - Remaining(paired_queues_) = Len(emitted) + 1
  /\ \E t \in TwinTiles(built[1]) :
       /\ TimesEmitted(t) = 1
       /\ t \notin Range(paired_queues_[1].active_queue.q)
       /\ t \notin Range(paired_queues_[1].pending_queue.q)
  /\ \E t \in EmittedTiles : ~is_shared(t)

(***************************************************************************)
(* C33 Completeness.  As stated, for a queue built once since it was       *)
(* constructed or Reset: when the Pops have drained every pair, every tile *)
(* that a layer handed to Build enumerates has been emitted, a shared tile *)
(* that one layer only of a pair of two layers enumerates included.        *)
(***************************************************************************)
C33_EveryTileEmitted ==
  (epoch = "built" /\ built # <<>> /\ Remaining(paired_queues_) = 0)
    => TilesOfAll(built) \subseteq EmittedTiles

(***************************************************************************)
(* C34 Build does not clear.  A Build step adds one pair per layer pair it *)
(* is handed to the pairs the container holds, so that after two Builds    *)
(* with no Reset between them the container holds the pairs of both; every *)
(* pair that was in the container is in it unchanged, its iterators where  *)
(* its construction, Pops and skips under the earlier policy left them;    *)
(* and the container is a heap under the policy of the Build.  Reset       *)
(* empties the container.                                                  *)
(***************************************************************************)
HeapUnder(v, tree_priority) ==
  \A i \in 2..Len(v) : ~RasterOrderComparator(tree_priority, v[i \div 2], v[i])

C34_BuildKeepsOlderPairs ==
  [][/\ last'.op = "Build" =>
          /\ Len(paired_queues_') = Len(paired_queues_) + (Len(built') - Len(built))
          /\ Len(paired_queues_') = Len(built')
          /\ PairIds(paired_queues_') =
               PairIds(paired_queues_) \cup ((Len(built) + 1)..Len(built'))
          /\ \A id \in PairIds(paired_queues_) :
               PairById(paired_queues_', id) = PairById(paired_queues_, id)
          /\ HeapUnder(paired_queues_', tree_priority_')
     /\ last'.op = "Reset" => paired_queues_' = <<>>]_vars

\* Two Builds of one pair each with no Reset between them: the older pair,
\* of two layers, has had a tile emitted and a shared tile skipped.
C34_Witness ==
  /\ epoch = "rebuilt" /\ last.op = "Build"
  /\ Len(built) = 2 /\ Len(paired_queues_) = 2
  /\ HasBothLayers(built[1])
  /\ LET pq == PairById(paired_queues_, 1)
     IN /\ pq.returned_tiles_for_debug # {}
        /\ ~PairedIsEmpty(pq)
        /\ Held(pq) + Cardinality(pq.returned_tiles_for_debug)
             < Len(built[1].active.q) + Len(built[1].pending.q)

(***************************************************************************)
(* C35 The invariants across a second Build.  As stated: a Build with      *)
(* another policy on a container that holds pairs and was not Reset leaves *)
(* every pair of two layers with a rightful top under the new policy       *)
(* (invariant I2), leaves no pair with a tile already emitted on top (no   *)
(* duplicates), and leaves the container a heap under the new policy.      *)
(***************************************************************************)
C35_InvariantsAcrossRebuild ==
  [][(last'.op = "Build" /\ paired_queues_ # <<>> /\ tree_priority_' # tree_priority_) =>
       /\ \A i \in DOMAIN paired_queues_' :
            /\ RightfulTop(paired_queues_'[i], tree_priority_')
            /\ \/ PairedIsEmpty(paired_queues_'[i])
               \/ PairedTop(paired_queues_'[i], tree_priority_') \notin EmittedTiles
       /\ HeapUnder(paired_queues_', tree_priority_')]_vars

(***************************************************************************)
(* C36 What the comparator reads.  Two pairs that are not empty and whose  *)
(* top tiles have the same priority_for_tree_priority(policy) record and,  *)
(* under the smoothness policy, the same pending-tree bin are ranked alike *)
(* against every pair, whichever iterator each top was selected from and   *)
(* whatever its other fields.  So a tile the smoothness arbiter selects    *)
(* from the pending iterator is ranked as a tile of the same active-tree   *)
(* priority and pending bin that an active iterator returns.               *)
(***************************************************************************)
RankKey(t) ==
  <<SelectedPriority(t),
    IF tree_priority_ = SMOOTHNESS_TAKES_PRIORITY THEN PendingBin(t) ELSE NOW>>

C36_ComparatorReadsRankKey ==
  last.op = "Rank" =>
    \A i, j, k \in ComparedPairs :
      RankKey(last.top[i]) = RankKey(last.top[j]) =>
        /\ last.lower[i][k] = last.lower[j][k]
        /\ last.lower[k][i] = last.lower[k][j]

\* Smoothness: pair 4 has an active top of bin EVENTUALLY and a pending top
\* of pending bin NOW, which the arbiter selects; the tile's two records
\* differ, an active iterator returns a tile with the same key, and a third
\* pair is ranked strictly above them.
C36_Witness ==
  /\ last.op = "Rank" /\ tree_priority_ = SMOOTHNESS_TAKES_PRIORITY
  /\ priority(1, ACTIVE_TREE).priority_bin = EVENTUALLY
  /\ PendingBin(2) = NOW
  /\ last.tree[4] = PENDING_TREE /\ last.top[4] = 2
  /\ priority(2, ACTIVE_TREE) # priority(2, PENDING_TREE)
  /\ priority(2, ACTIVE_TREE).priority_bin = SOON
  /\ RankKey(3) = RankKey(2) /\ last.tree[3] = ACTIVE_TREE
  /\ last.lower[4][1] = FALSE /\ last.lower[1][4] = TRUE

(***************************************************************************)
(* C37 The arbiter against the comparator.  Under the smoothness policy,   *)
(* when the arbiter selects the top of the pending iterator over the top   *)
(* of the active iterator, the comparator of the same policy does not rank *)
(* a pair topped by the selected tile strictly lower than a pair topped by *)
(* the other tile.                                                         *)
(***************************************************************************)
C37_PendingPromotionConsistent ==
  (last.op = "Select" /\ tree_priority_ = SMOOTHNESS_TAKES_PRIORITY
     /\ last.tree = PENDING_TREE)
    => ~last.lower[PENDING_TREE]

\* C37 as stated: under every policy and whichever side is selected.
C37_SelectionConsistent == last.op = "Select" => ~last.lower[last.tree]

\* The pending top is selected, its own active bin is EVENTUALLY as is the
\* active top's, and the comparator ranks the pair of the active top
\* strictly lower.
C37_Witness ==
  /\ last.op = "Select" /\ tree_priority_ = SMOOTHNESS_TAKES_PRIORITY
  /\ last.tree = PENDING_TREE /\ last.tile = 2
  /\ priority(2, ACTIVE_TREE).priority_bin = EVENTUALLY
  /\ PendingBin(1) # NOW
  /\ last.lower[ACTIVE_TREE]

(***************************************************************************)
(* C38 PairedTilingSetQueue::IsEmpty.  A pair of the container is empty    *)
(* exactly when neither its active nor its pending iterator is present     *)
(* with a tile, and a pair that is empty is empty after every step that    *)
(* leaves it in the container.                                             *)
(***************************************************************************)
C38_PairedIsEmpty ==
  /\ [](\A i \in DOMAIN paired_queues_ :
          /\ PairedIsEmpty(paired_queues_[i]) <=>
               /\ ~HasTile(paired_queues_[i].active_queue)
               /\ ~HasTile(paired_queues_[i].pending_queue)
          /\ PairedIsEmpty(paired_queues_[i]) <=> Held(paired_queues_[i]) = 0)
  /\ [][\A id \in PairIds(paired_queues_) \cap PairIds(paired_queues_') :
         PairedIsEmpty(PairById(paired_queues_, id))
           => PairedIsEmpty(PairById(paired_queues_', id))]_vars

\* A pair of two layers that Pops have drained is still empty after the Pop
\* of a tile of the other pair.
C38_Witness ==
  /\ last.op = "Pop" /\ Len(paired_queues_) = 2
  /\ \E i \in DOMAIN paired_queues_ :
       /\ paired_queues_[i].id # last.pair
       /\ paired_queues_[i].has_both_layers
       /\ paired_queues_[i].returned_tiles_for_debug # {}
       /\ PairedIsEmpty(paired_queues_[i])

(***************************************************************************)
(* C39 StateAsValue.  As stated: for every pair, whichever of its          *)
(* iterators are absent, empty or hold a tile, the "active_queue"          *)
(* dictionary reports as has_tile whether the active iterator is present   *)
(* with a tile, and the "pending_queue" dictionary whether the pending     *)
(* iterator is.                                                            *)
(***************************************************************************)
C39_OwnHasTile ==
  last.op = "StateAsValue" =>
    \A a, p \in ArbQueues :
      /\ last.state[a][p].active_queue.has_tile = HasTile(last.pair[a][p].active_queue)
      /\ last.state[a][p].pending_queue.has_tile = HasTile(last.pair[a][p].pending_queue)
=============================================================================
